---- MODULE Spec2Model ----
(***************************************************************************)
(* A model of the Secure Node.js Middleware Stack: the IP blacklist guard, *)
(* the sliding-window rate limiter and the input sanitizer that app.js     *)
(* mounts, in that order, in front of every route.                         *)
(*                                                                         *)
(* JavaScript strings are sequences of one-character strings, so that the  *)
(* regular expressions and replacements of the code can be computed.       *)
(* Node runs each synchronous middleware chain to completion, so one       *)
(* request is one action.  Time is Date.now() in milliseconds.             *)
(***************************************************************************)
EXTENDS Integers, Sequences, FiniteSets, TLC

VARIABLES
    now,             \* Date.now()
    rateStore,       \* rateLimiter.js: rateStore (Map: ip -> clientData)
    blacklistedIPs,  \* ipBlacklist.js: blacklistedIPs (Set)
    whitelistedIPs,  \* ipBlacklist.js: whitelistedIPs (Set)
    last,            \* what the last operation returned or responded
    recent,          \* history: per key, the instants inside the trailing window at which rateLimiter called next(), since the key's last reset
    admittedOnce,    \* history: per key, whether rateLimiter called next() for it since the key's last reset
    lockout,         \* history: the key that the last request was denied for by rateLimiter, kept while the clock advances, and whether the request that followed was of that key and admitted
    burst,           \* history: per key, the rateLimiter calls and admissions since the key was first seen without a record, while less than windowMs old
    input,           \* the argument of a call of a function without state: deepSanitize's value, a validator's rules and body, getClientIP's request
    output           \* what that call returned or responded

vars == <<now, rateStore, blacklistedIPs, whitelistedIPs, last, recent, admittedOnce, burst,
          lockout,
          input, output>>

----------------------------------------------------------------------------
(* Bounds of the model *)

\* the clock runs from 0 to MaxTime
MaxTime == 3
\* rateLimiter calls modelled per key in one burst
MaxCalls == 3
MaxEntries == 2

(* Configuration (RATE_LIMIT_CONFIG), scaled down: the code reads both from *)
(* the configuration object, the algorithm does not depend on their values *)
windowMs == 2
maxRequests == 2
MsPerSecond == 1000

----------------------------------------------------------------------------
(* Values *)

\* the JavaScript value undefined (no string: strings hold one-character elements)
Undefined == <<"undefined">>

Digits == {"0", "1", "2", "3", "4", "5", "6", "7", "8", "9"}
HexLetters == {"a", "b", "c", "d", "e", "f", "A", "B", "C", "D", "E", "F"}

Localhost == <<"1", "2", "7", ".", "0", ".", "0", ".", "1">>
LocalhostV6 == <<":", ":", "1">>
MappedLocalhost == <<":", ":", "f", "f", "f", "f", ":", "1", "2", "7", ".", "0", ".", "0", ".", "1">>
BannedA == <<"1", "9", "2", ".", "1", "6", "8", ".", "1", ".", "1", "0", "0">>
BannedB == <<"1", "0", ".", "0", ".", "0", ".", "5">>
BannedC == <<"1", "2", "7", ".", "0", ".", "0", ".", "2">>
PublicIp == <<"8", ".", "8", ".", "8", ".", "8">>
Malformed == <<"e", "v", "i", "l">>
EmptyString == <<>>

\* the client addresses requests arrive from
ClientAddrs == {Localhost, BannedB, PublicIp}
\* the arguments the administrative functions are called with
AdminArgs == {Localhost, LocalhostV6, MappedLocalhost, BannedB, PublicIp, Malformed, EmptyString, Undefined}

\* the addresses resetRateLimit is called with
ResetArgs == {Localhost, PublicIp, Malformed}

IsString(v) == v # Undefined
\* JavaScript truthiness of a string or undefined
Truthy(v) == v # Undefined /\ v # EmptyString

Max(a, b) == IF a >= b THEN a ELSE b
Min(a, b) == IF a <= b THEN a ELSE b

----------------------------------------------------------------------------
(* utils/responseHelper.js, with NODE_ENV other than production *)

NoDetails == [retryAfter |-> -1, limit |-> -1, windowMs |-> -1]

\* errorResponse(message, statusCode, details): the timestamp field is left out
errorResponse(message, statusCode, details) ==
    [success |-> FALSE, message |-> message, statusCode |-> statusCode, details |-> details]

\* the body of a response that no denial wrote
NoBody == [success |-> TRUE, message |-> "", statusCode |-> 0, details |-> NoDetails]

----------------------------------------------------------------------------
(* middleware/ipBlacklist.js *)

SeedBlacklist == {BannedA, BannedB, BannedC}
SeedWhitelist == {Localhost, LocalhostV6, MappedLocalhost}

\* String.prototype.split(',')[0]: the text before the first comma
RECURSIVE BeforeComma(_)
BeforeComma(s) ==
    IF s = <<>> \/ Head(s) = "," THEN <<>> ELSE <<Head(s)>> \o BeforeComma(Tail(s))

WhiteSpace == {" ", "\t", "\n", "\r"}

RECURSIVE TrimStart(_)
TrimStart(s) == IF s # <<>> /\ Head(s) \in WhiteSpace THEN TrimStart(Tail(s)) ELSE s

RECURSIVE TrimEnd(_)
TrimEnd(s) ==
    IF s # <<>> /\ s[Len(s)] \in WhiteSpace THEN TrimEnd(SubSeq(s, 1, Len(s) - 1)) ELSE s

\* String.prototype.trim()
Trim(s) == TrimEnd(TrimStart(s))

\* a forwarded-for header naming a blacklisted address first
ForwardedHeader == <<" ">> \o BannedB \o <<" ", ",">> \o Localhost

\* a request, as far as the middleware reads it: req.ip, the two proxy headers
\* and the peer address of the socket (req.connection is req.socket, and a
\* socket has no socket of its own), each a string or undefined.  Express
\* derives req.ip from the peer address.
Request(ip, xff, realIp) ==
    [ip |-> ip, xForwardedFor |-> xff, xRealIp |-> realIp, remoteAddress |-> ip]

Requests ==
    {Request(a, Undefined, Undefined) : a \in ClientAddrs}
        \cup {Request(PublicIp, ForwardedHeader, BannedB)}

Unknown == <<"0", ".", "0", ".", "0", ".", "0">>

\* the real-IP header is read before the forwarded-for header
getClientIPRealIpFirst(req) ==
    LET forwarded ==
            IF req.xForwardedFor = Undefined THEN Undefined
            ELSE Trim(BeforeComma(req.xForwardedFor))
    IN  IF Truthy(req.ip) THEN req.ip
        ELSE IF Truthy(req.xRealIp) THEN req.xRealIp
        ELSE IF Truthy(forwarded) THEN forwarded
        ELSE IF Truthy(req.remoteAddress) THEN req.remoteAddress
        ELSE Unknown

\* getClientIP(req)
getClientIP(req) ==
    LET forwarded ==
            IF req.xForwardedFor = Undefined THEN Undefined
            ELSE Trim(BeforeComma(req.xForwardedFor))
    IN  IF Truthy(req.ip) THEN req.ip
        ELSE IF Truthy(forwarded) THEN forwarded
        ELSE IF Truthy(req.xRealIp) THEN req.xRealIp
        ELSE IF Truthy(req.remoteAddress) THEN req.remoteAddress
        ELSE Unknown

\* a forwarded-for header whose first entry is blank
BlankFirstHeader == <<" ", ",">> \o Localhost

\* the requests getClientIP may be handed: each of the four sources absent,
\* empty or given
RequestShapes ==
    [ip : {Undefined, EmptyString, PublicIp},
     xForwardedFor : {Undefined, EmptyString, ForwardedHeader, BlankFirstHeader, BannedA},
     xRealIp : {Undefined, EmptyString, BannedC},
     remoteAddress : {Undefined, EmptyString, Localhost}]

\* the guard looks at the blacklist before the whitelist
ipBlacklistChecksBlacklistFirst(req, bl, wl) ==
    LET clientIP == getClientIP(req) IN
    IF clientIP \in bl
        THEN [next |-> FALSE, status |-> 403, body |-> errorResponse("Access denied", 403, NoDetails)]
    ELSE [next |-> TRUE, status |-> 0, body |-> NoBody]

\* the guard's denial tells the client why
ipBlacklistRevealsReason(req, bl, wl) ==
    LET clientIP == getClientIP(req) IN
    IF clientIP \in wl THEN [next |-> TRUE, status |-> 0, body |-> NoBody]
    ELSE IF clientIP \in bl
        THEN [next |-> FALSE, status |-> 403,
              body |-> errorResponse("IP address is blacklisted", 403, NoDetails)]
        ELSE [next |-> TRUE, status |-> 0, body |-> NoBody]

\* ipBlacklist(req, res, next) over the two sets: whether next() is called,
\* and otherwise the response
ipBlacklist(req, bl, wl) ==
    LET clientIP == getClientIP(req) IN
    IF clientIP \in wl THEN [next |-> TRUE, status |-> 0, body |-> NoBody]
    ELSE IF clientIP \in bl
        THEN [next |-> FALSE, status |-> 403, body |-> errorResponse("Access denied", 403, NoDetails)]
        ELSE [next |-> TRUE, status |-> 0, body |-> NoBody]

\* String.prototype.split(sep) for a one-character separator
RECURSIVE Split(_, _)
Split(s, sep) ==
    IF s = <<>> THEN <<(<<>>)>>
    ELSE LET rest == Split(Tail(s), sep) IN
         IF Head(s) = sep THEN <<(<<>>)>> \o rest
         ELSE <<(<<Head(s)>> \o Head(rest))>> \o Tail(rest)

AllIn(s, chars) == \A i \in 1..Len(s) : s[i] \in chars

\* ipv4Regex = /^(\d{1,3}\.){3}\d{1,3}$/ .test(ip)
ipv4Regex(ip) ==
    LET parts == Split(ip, ".") IN
    /\ Len(parts) = 4
    /\ \A i \in 1..4 : Len(parts[i]) \in 1..3 /\ AllIn(parts[i], Digits)

\* ipv6Regex = /^[0-9a-fA-F:]+$/ .test(ip)
ipv6Regex(ip) == Len(ip) >= 1 /\ AllIn(ip, Digits \cup HexLetters \cup {":"})

\* what a function call gave: a returned value, or a thrown Error's message
Returned(value, bl) == [threw |-> FALSE, error |-> "", value |-> value, blacklist |-> bl]
Threw(message, bl) == [threw |-> TRUE, error |-> message, value |-> FALSE, blacklist |-> bl]

\* addToBlacklist reports every call as an addition
addToBlacklistAlwaysAdded(ip, bl, wl) ==
    IF ~Truthy(ip) \/ ~IsString(ip) THEN Threw("Invalid IP address", bl)
    ELSE IF ~ipv4Regex(ip) /\ ~ipv6Regex(ip) THEN Threw("Invalid IP address format", bl)
    ELSE IF ip \in wl THEN Threw("Cannot blacklist whitelisted IP", bl)
    ELSE Returned(TRUE, bl \cup {ip})

\* addToBlacklist without the test of the whitelist
addToBlacklistWithoutWhitelistCheck(ip, bl, wl) ==
    IF ~Truthy(ip) \/ ~IsString(ip) THEN Threw("Invalid IP address", bl)
    ELSE IF ~ipv4Regex(ip) /\ ~ipv6Regex(ip) THEN Threw("Invalid IP address format", bl)
    ELSE Returned(ip \notin bl, bl \cup {ip})

\* addToBlacklist without the test of the two regular expressions
addToBlacklistWithoutFormatCheck(ip, bl, wl) ==
    IF ~Truthy(ip) \/ ~IsString(ip) THEN Threw("Invalid IP address", bl)
    ELSE IF ip \in wl THEN Threw("Cannot blacklist whitelisted IP", bl)
    ELSE Returned(ip \notin bl, bl \cup {ip})

\* addToBlacklist(ip) on the blacklist bl and the whitelist wl
addToBlacklist(ip, bl, wl) ==
    IF ~Truthy(ip) \/ ~IsString(ip) THEN Threw("Invalid IP address", bl)
    ELSE IF ~ipv4Regex(ip) /\ ~ipv6Regex(ip) THEN Threw("Invalid IP address format", bl)
    ELSE IF ip \in wl THEN Threw("Cannot blacklist whitelisted IP", bl)
    ELSE Returned(ip \notin bl, bl \cup {ip})

\* removeFromBlacklist reports the address and leaves it in the set
removeFromBlacklistKeepsAddress(ip, bl) ==
    IF ~Truthy(ip) \/ ~IsString(ip) THEN Threw("Invalid IP address", bl)
    ELSE Returned(ip \in bl, bl)

\* removeFromBlacklist(ip)
removeFromBlacklist(ip, bl) ==
    IF ~Truthy(ip) \/ ~IsString(ip) THEN Threw("Invalid IP address", bl)
    ELSE Returned(ip \in bl, bl \ {ip})

\* clearBlacklist(): the number of addresses cleared, and the empty set
clearBlacklist(bl) == [count |-> Cardinality(bl), blacklist |-> {}]

----------------------------------------------------------------------------
(* middleware/rateLimiter.js *)

\* Math.max(...s) of a non-empty array
RECURSIVE MaxOf(_)
MaxOf(s) == IF Len(s) = 1 THEN s[1] ELSE Max(Head(s), MaxOf(Tail(s)))

\* Math.ceil(a / b) for b > 0
Ceil(a, b) == -((-a) \div b)

\* Map.prototype.set and Map.prototype.delete on a map kept as a function
MapSet(m, k, v) == [x \in DOMAIN m \cup {k} |-> IF x = k THEN v ELSE m[x]]
MapDelete(m, k) == [x \in DOMAIN m \ {k} |-> m[x]]

RateLimitMessage == "Too many requests from this IP, please try again later"

\* the headers no response set
NoHeaders == [limit |-> -1, remaining |-> -1, reset |-> -1, retryAfter |-> -1]

\* the sweep measures the age of a record from the instant of the sweep, not
\* from the start of the window
cleanupOldEntriesCutoffNow(store, t) ==
    LET cutoff == t
        stale(ip) ==
            Len(store[ip].requests) = 0 \/ MaxOf(store[ip].requests) < cutoff
    IN  [ip \in {k \in DOMAIN store : ~stale(k)} |-> store[ip]]

\* cleanupOldEntries() on the store at the instant t
cleanupOldEntries(store, t) ==
    LET cutoff == t - windowMs
        stale(ip) ==
            Len(store[ip].requests) = 0 \/ MaxOf(store[ip].requests) < cutoff
    IN  [ip \in {k \in DOMAIN store : ~stale(k)} |-> store[ip]]

\* the limit test admits one request too many
limitExceededOffByOne(count) == count > maxRequests

\* if (clientData.count >= RATE_LIMIT_CONFIG.maxRequests)
limitExceeded(count) == count >= maxRequests

\* the filter keeps the timestamps that left the window
inWindowInverted(timestamp, windowStart) == timestamp < windowStart

\* the filter keeps the timestamp that lies windowMs back
inWindowInclusive(timestamp, windowStart) == timestamp >= windowStart

\* the filter's test: timestamp > windowStart
inWindow(timestamp, windowStart) == timestamp > windowStart

\* the remaining quota is computed from the count before the push
remainingBeforePush(count) == Max(0, maxRequests - (count - 1))

\* remaining = Math.max(0, maxRequests - clientData.count), with the count
\* that follows the push
remaining(count) == Max(0, maxRequests - count)

\* the key the limiter files a request under
limiterKey(req) == IF Truthy(req.ip) THEN req.ip ELSE req.remoteAddress

\* the instant of a denied call is pushed to the record as well
rateLimiterPushesWhenDenied(req, store, t, random) ==
    LET clientIP == limiterKey(req)
        windowStart == t - windowMs
        clientData ==
            IF clientIP \in DOMAIN store THEN store[clientIP]
            ELSE [requests |-> <<>>, count |-> 0, resetTime |-> t + windowMs]
        recentOnly(timestamp) == inWindow(timestamp, windowStart)
        kept == SelectSeq(clientData.requests, recentOnly)
        count == Len(kept)
    IN  IF limitExceeded(count)
        THEN LET resetTime == Ceil(windowStart + windowMs - t, MsPerSecond) IN
             [store |-> MapSet(store, clientIP,
                               [clientData EXCEPT !.requests = Append(kept, t),
                                                  !.count = count + 1]),
              next |-> FALSE,
              status |-> 429,
              headers |-> [limit |-> maxRequests, remaining |-> 0,
                           reset |-> windowStart + windowMs, retryAfter |-> resetTime],
              body |-> errorResponse(RateLimitMessage, 429,
                           [retryAfter |-> resetTime, limit |-> maxRequests,
                            windowMs |-> windowMs])]
        ELSE LET pushed == Append(kept, t)
                 stored == MapSet(store, clientIP,
                               [clientData EXCEPT !.requests = pushed, !.count = Len(pushed)])
             IN
             [store |-> IF random THEN cleanupOldEntries(stored, t) ELSE stored,
              next |-> TRUE,
              status |-> 0,
              headers |-> [limit |-> maxRequests,
                           remaining |-> remaining(Len(pushed)),
                           reset |-> windowStart + windowMs, retryAfter |-> -1],
              body |-> NoBody]

\* rateLimiter(req, res, next) on the store at the instant t; random is
\* whether Math.random() < 0.01.  Gives the store afterwards, whether next()
\* was called, and the response headers, status and body.
rateLimiter(req, store, t, random) ==
    LET clientIP == limiterKey(req)
        windowStart == t - windowMs
        clientData ==
            IF clientIP \in DOMAIN store THEN store[clientIP]
            ELSE [requests |-> <<>>, count |-> 0, resetTime |-> t + windowMs]
        recentOnly(timestamp) == inWindow(timestamp, windowStart)
        kept == SelectSeq(clientData.requests, recentOnly)
        count == Len(kept)
    IN  IF limitExceeded(count)
        THEN LET resetTime == Ceil(windowStart + windowMs - t, MsPerSecond) IN
             [store |-> MapSet(store, clientIP,
                               [clientData EXCEPT !.requests = kept, !.count = count]),
              next |-> FALSE,
              status |-> 429,
              headers |-> [limit |-> maxRequests, remaining |-> 0,
                           reset |-> windowStart + windowMs, retryAfter |-> resetTime],
              body |-> errorResponse(RateLimitMessage, 429,
                           [retryAfter |-> resetTime, limit |-> maxRequests,
                            windowMs |-> windowMs])]
        ELSE LET pushed == Append(kept, t)
                 stored == MapSet(store, clientIP,
                               [clientData EXCEPT !.requests = pushed, !.count = Len(pushed)])
             IN
             [store |-> IF random THEN cleanupOldEntries(stored, t) ELSE stored,
              next |-> TRUE,
              status |-> 0,
              headers |-> [limit |-> maxRequests,
                           remaining |-> remaining(Len(pushed)),
                           reset |-> windowStart + windowMs, retryAfter |-> -1],
              body |-> NoBody]

\* the statistics no call gave
NoStats == [totalIPs |-> -1, activeConnections |-> -1, topIPs |-> {}]

\* getRateLimitStats() on the store at the instant t (which it does not
\* read).  topIPs holds at most ten entries in the code, ordered by count;
\* the model tracks fewer than ten keys and keeps the entries as a set, with
\* lastRequestTime as the instant the ISO string is written from.
getRateLimitStats(store, t) ==
    LET counted == {ip \in DOMAIN store : store[ip].count > 0} IN
    [totalIPs |-> Cardinality(DOMAIN store),
     activeConnections |-> Cardinality(counted),
     topIPs |-> {[ip |-> ip, requests |-> store[ip].count,
                  lastRequestTime |-> MaxOf(store[ip].requests)] : ip \in counted}]

\* the reset deletes the records of all keys
resetRateLimitClearsStore(ip, store) == [deleted |-> ip \in DOMAIN store, store |-> <<>>]

\* the reset reports the record and leaves it in the store
resetRateLimitKeepsRecord(ip, store) == [deleted |-> ip \in DOMAIN store, store |-> store]

\* resetRateLimit(ip): whether a record was deleted, and the store afterwards
resetRateLimit(ip, store) ==
    [deleted |-> ip \in DOMAIN store, store |-> MapDelete(store, ip)]

----------------------------------------------------------------------------
(* middleware/sanitizer.js: strings *)

UpperCase == <<"A", "B", "C", "D", "E", "F", "G", "H", "I", "J", "K", "L", "M",
               "N", "O", "P", "Q", "R", "S", "T", "U", "V", "W", "X", "Y", "Z">>
LowerCase == <<"a", "b", "c", "d", "e", "f", "g", "h", "i", "j", "k", "l", "m",
               "n", "o", "p", "q", "r", "s", "t", "u", "v", "w", "x", "y", "z">>

\* the i flag: letters compare by their lower case
Lower(c) ==
    IF \E i \in 1..26 : UpperCase[i] = c
    THEN LowerCase[CHOOSE i \in 1..26 : UpperCase[i] = c]
    ELSE c

\* \w
WordChars == {UpperCase[i] : i \in 1..26} \cup {LowerCase[i] : i \in 1..26} \cup Digits \cup {"_"}
\* \s, as far as the strings modelled hold it
SpaceChars == {" ", "\t", "\n", "\r"}
\* what . does not match
LineTerminators == {"\n", "\r"}
QuoteChars == {"\"", "'"}

\* the lower-case literal pat matches s at position i, letters in either case
MatchesAt(s, i, pat) ==
    /\ i + Len(pat) - 1 <= Len(s)
    /\ \A j \in 1..Len(pat) : Lower(s[i + j - 1]) = pat[j]

\* the first position from i on that holds a character of the set, or 0
RECURSIVE FindIn(_, _, _)
FindIn(s, i, chars) ==
    IF i > Len(s) THEN 0 ELSE IF s[i] \in chars THEN i ELSE FindIn(s, i + 1, chars)

\* the first position from i on that holds no character of the set (greedy
\* chars*), Len(s) + 1 when there is none
RECURSIVE SkipOver(_, _, _)
SkipOver(s, i, chars) ==
    IF i <= Len(s) /\ s[i] \in chars THEN SkipOver(s, i + 1, chars) ELSE i

ScriptOpen == <<"<", "s", "c", "r", "i", "p", "t">>
ScriptClose == <<"<", "/", "s", "c", "r", "i", "p", "t", ">">>

\* .*?<\/script> from i on: the position of the first closing tag that no
\* line terminator precedes, or 0
RECURSIVE FindScriptClose(_, _)
FindScriptClose(s, i) ==
    IF i > Len(s) THEN 0
    ELSE IF MatchesAt(s, i, ScriptClose) THEN i
    ELSE IF s[i] \in LineTerminators THEN 0
    ELSE FindScriptClose(s, i + 1)

\* /<script[^>]*>.*?<\/script>/i at position i: the last position of the
\* match, or 0
ScriptMatch(s, i) ==
    IF ~MatchesAt(s, i, ScriptOpen) THEN 0
    ELSE LET gt == FindIn(s, i + Len(ScriptOpen), {">"}) IN
         IF gt = 0 THEN 0
         ELSE LET close == FindScriptClose(s, gt + 1) IN
              IF close = 0 THEN 0 ELSE close + Len(ScriptClose) - 1

\* /on\w+\s*=\s*["'][^"']*["']/i at position i: the last position of the
\* match, or 0
HandlerMatch(s, i) ==
    IF ~MatchesAt(s, i, <<"o", "n">>) THEN 0
    ELSE LET word == SkipOver(s, i + 2, WordChars)
             eq == SkipOver(s, word, SpaceChars)
             open == SkipOver(s, eq + 1, SpaceChars)
         IN  IF word = i + 2 \/ eq > Len(s) \/ open > Len(s) THEN 0
             ELSE IF s[eq] # "=" \/ s[open] \notin QuoteChars THEN 0
             ELSE FindIn(s, open + 1, QuoteChars)

JavascriptScheme == <<"j", "a", "v", "a", "s", "c", "r", "i", "p", "t", ":">>

\* /javascript:/i at position i: the last position of the match, or 0
SchemeMatch(s, i) ==
    IF MatchesAt(s, i, JavascriptScheme) THEN i + Len(JavascriptScheme) - 1 ELSE 0

\* str.replace(/.../gi, ''): the matches from left to right, each search
\* resuming after the match before
RECURSIVE removeScripts(_, _)
removeScripts(s, i) ==
    IF i > Len(s) THEN <<>>
    ELSE IF ScriptMatch(s, i) # 0 THEN removeScripts(s, ScriptMatch(s, i) + 1)
    ELSE <<s[i]>> \o removeScripts(s, i + 1)

RECURSIVE removeHandlers(_, _)
removeHandlers(s, i) ==
    IF i > Len(s) THEN <<>>
    ELSE IF HandlerMatch(s, i) # 0 THEN removeHandlers(s, HandlerMatch(s, i) + 1)
    ELSE <<s[i]>> \o removeHandlers(s, i + 1)

RECURSIVE removeSchemes(_, _)
removeSchemes(s, i) ==
    IF i > Len(s) THEN <<>>
    ELSE IF SchemeMatch(s, i) # 0 THEN removeSchemes(s, SchemeMatch(s, i) + 1)
    ELSE <<s[i]>> \o removeSchemes(s, i + 1)

\* str.replace(/c/g, entity)
RECURSIVE encode(_, _, _)
encode(s, c, entity) ==
    IF s = <<>> THEN <<>>
    ELSE (IF Head(s) = c THEN entity ELSE <<Head(s)>>) \o encode(Tail(s), c, entity)

AmpEntity == <<"&", "a", "m", "p", ";">>
LtEntity == <<"&", "l", "t", ";">>
GtEntity == <<"&", "g", "t", ";">>
QuotEntity == <<"&", "q", "u", "o", "t", ";">>
AposEntity == <<"&", "#", "x", "2", "7", ";">>
SlashEntity == <<"&", "#", "x", "2", "F", ";">>

\* the ampersand is encoded after the other characters
sanitizeStringAmpLast(str) ==
    LET removed == removeSchemes(removeHandlers(removeScripts(str, 1), 1), 1) IN
    encode(encode(encode(encode(encode(encode(removed,
        "<", LtEntity), ">", GtEntity), "\"", QuotEntity),
        "'", AposEntity), "/", SlashEntity), "&", AmpEntity)

\* sanitizeString(str) of a string
sanitizeString(str) ==
    LET removed == removeSchemes(removeHandlers(removeScripts(str, 1), 1), 1) IN
    encode(encode(encode(encode(encode(encode(removed,
        "&", AmpEntity), "<", LtEntity), ">", GtEntity),
        "\"", QuotEntity), "'", AposEntity), "/", SlashEntity)

----------------------------------------------------------------------------
(* middleware/sanitizer.js: structured values *)

\* A JavaScript value as the JSON body parser builds it: a tag t and, by tag,
\* the characters of a string, a number, a boolean, the items of an array, or
\* the own enumerable properties of an object in Object.entries order
\* together with the object's prototype.
Null == [t |-> "null"]
UndefinedValue == [t |-> "undefined"]
\* no value: deepSanitize has not returned yet
Pending == [t |-> "pending"]
ObjectPrototype == [t |-> "Object.prototype"]
Str(chars) == [t |-> "string", chars |-> chars]
Num(n) == [t |-> "number", n |-> n]
Bool(b) == [t |-> "boolean", b |-> b]
Arr(items) == [t |-> "array", items |-> items]
Entry(key, value) == [key |-> key, value |-> value]
Obj(entries) == [t |-> "object", entries |-> entries, proto |-> ObjectPrototype]

ProtoKey == <<"_", "_", "p", "r", "o", "t", "o", "_", "_">>
startsWith(str, c) == Len(str) > 0 /\ str[1] = c
includes(str, c) == \E i \in 1..Len(str) : str[i] = c
hasOwnProperty(o, key) == \E i \in 1..Len(o.entries) : o.entries[i].key = key

\* sanitized[key] = value on an ordinary object: an own property is written
\* in place; the key __proto__, while Object.prototype's accessor is
\* inherited, sets the prototype to an object or null and is otherwise
\* ignored; any other key is created after the existing own properties.
setProperty(o, key, value) ==
    IF hasOwnProperty(o, key)
    THEN [o EXCEPT !.entries = [i \in 1..Len(o.entries) |->
                                   IF o.entries[i].key = key THEN Entry(key, value)
                                   ELSE o.entries[i]]]
    ELSE IF key = ProtoKey /\ o.proto # Null
    THEN IF value.t \in {"object", "array", "null"}
         THEN [o EXCEPT !.proto = value]
         ELSE o
    ELSE [o EXCEPT !.entries = Append(o.entries, Entry(key, value))]

RECURSIVE deepSanitize(_)
RECURSIVE sanitizeEntries(_, _, _)

\* the for ... of Object.entries(obj) loop from its i-th entry on
sanitizeEntries(entries, i, sanitized) ==
    IF i > Len(entries) THEN sanitized
    ELSE LET key == entries[i].key
             value == entries[i].value
             cleanKey == sanitizeString(key)
         IN  IF startsWith(cleanKey, "$") \/ includes(cleanKey, ".") \/ cleanKey # key
             THEN sanitizeEntries(entries, i + 1, sanitized)
             ELSE sanitizeEntries(entries, i + 1,
                                  setProperty(sanitized, cleanKey, deepSanitize(value)))

deepSanitize(obj) ==
    IF obj.t \in {"null", "undefined"} THEN obj
    ELSE IF obj.t = "array"
    THEN Arr([i \in 1..Len(obj.items) |-> deepSanitize(obj.items[i])])
    ELSE IF obj.t = "object"
    THEN sanitizeEntries(obj.entries, 1, Obj(<<>>))
    ELSE IF obj.t = "string"
    THEN Str(sanitizeString(obj.chars))
    ELSE obj

\* The values sanitized: keys and leaves of the kinds the sanitizer tells
\* apart, nested to two levels, in objects of at most MaxEntries properties.
NameKey == <<"n", "a", "m", "e">>
WhereKey == <<"$", "w", "h", "e", "r", "e">>
DottedKey == <<"a", ".", "b">>
MarkupKey == <<"<", "b", ">">>
AdminKey == <<"i", "s", "A", "d", "m", "i", "n">>
Keys == {NameKey, WhereKey, DottedKey, MarkupKey, ProtoKey}

ScriptText == <<"<", "s", "c", "r", "i", "p", "t", ">", "a", "l", "e", "r", "t", "(", "1", ")", "<", "/", "s", "c", "r", "i", "p", "t", ">">>
PlainText == <<"x">>
QueryText == <<"1", "=", "=", "1">>
SchemeText == <<"j", "a", "v", "a", "s", "c", "r", "i", "p", "t", ":", "x">>
Leaves == {Str(ScriptText), Str(PlainText), Str(SchemeText), Num(1), Null}
InnerLeaves == {Str(ScriptText), Bool(TRUE)}

Nested ==
    {Arr(<<leaf>>) : leaf \in InnerLeaves}
        \cup {Obj(<<Entry(key, leaf)>>) : key \in {WhereKey, AdminKey}, leaf \in InnerLeaves}

Values == Leaves \cup Nested

\* the property lists of at most n properties with distinct keys
RECURSIVE EntryLists(_)
EntryLists(n) ==
    IF n = 0 THEN {<<>>}
    ELSE LET shorter == EntryLists(n - 1) IN
         shorter \cup {Append(entries, Entry(key, value)) :
                          entries \in {e \in shorter : Len(e) = n - 1},
                          key \in Keys, value \in Values}

DistinctKeys(entries) ==
    \A i, j \in 1..Len(entries) : entries[i].key = entries[j].key => i = j

\* the example of the specification's injection-defeat property
InjectionExample ==
    Obj(<<Entry(WhereKey, Str(QueryText)), Entry(DottedKey, Num(1)),
          Entry(NameKey, Str(ScriptText))>>)

StructuredValues ==
    {Obj(entries) : entries \in {e \in EntryLists(MaxEntries) : DistinctKeys(e)}}
        \cup Values
        \cup {Arr(<<Obj(<<Entry(key, leaf)>>)>>) : key \in Keys, leaf \in InnerLeaves}
        \cup {InjectionExample, UndefinedValue}

----------------------------------------------------------------------------
(* middleware/sanitizer.js: deepSanitize on values with identity *)

\* Objects and arrays live in a heap, a sequence of cells addressed by their
\* position: a cell is an array with its items or an object with its own
\* properties and its prototype.  An item, a property value or a prototype is
\* a primitive value or the reference of a cell; two references are the same
\* object exactly when they hold the same address.
Ref(a) == [t |-> "ref", a |-> a]
ArrayCell(items) == [t |-> "array", items |-> items]
ObjectCell(entries, proto) == [t |-> "object", entries |-> entries, proto |-> proto]

\* a new cell in the heap, and its reference
allocate(heap, cell) == [heap |-> Append(heap, cell), value |-> Ref(Len(heap) + 1)]

RECURSIVE parse(_, _)
RECURSIVE parseAll(_, _, _, _)

\* the values of a list from the i-th on, built in the heap one after the other
parseAll(heap, values, i, built) ==
    IF i > Len(values) THEN [heap |-> heap, values |-> built]
    ELSE \* the choice from a singleton evaluates the recursive call once
         LET r == CHOOSE x \in {parse(heap, values[i])} : TRUE IN
         parseAll(r.heap, values, i + 1, Append(built, r.value))

\* the body parser builds a structured value in the heap: every array and
\* object of it is a cell of its own
parse(heap, value) ==
    IF value.t = "array"
    THEN LET r == CHOOSE x \in {parseAll(heap, value.items, 1, <<>>)} : TRUE IN
         allocate(r.heap, ArrayCell(r.values))
    ELSE IF value.t = "object"
    THEN LET r == CHOOSE x \in {parseAll(heap,
                        [i \in 1..Len(value.entries) |-> value.entries[i].value],
                        1, <<>>)} : TRUE
         IN  allocate(r.heap,
                 ObjectCell([i \in 1..Len(value.entries) |->
                                Entry(value.entries[i].key, r.values[i])],
                            value.proto))
    ELSE [heap |-> heap, value |-> value]

\* the structured value that a value of the heap stands for
RECURSIVE valueOf(_, _)
valueOf(heap, v) ==
    IF v.t # "ref" THEN v
    ELSE LET cell == heap[v.a] IN
         IF cell.t = "array"
         THEN Arr([i \in 1..Len(cell.items) |-> valueOf(heap, cell.items[i])])
         ELSE [t |-> "object",
               entries |-> [i \in 1..Len(cell.entries) |->
                               Entry(cell.entries[i].key,
                                     valueOf(heap, cell.entries[i].value))],
               proto |-> valueOf(heap, cell.proto)]

\* sanitized[key] = value on the object cell of the reference
setPropertyIn(heap, sanitized, key, value) ==
    LET o == heap[sanitized.a] IN
    IF \E i \in 1..Len(o.entries) : o.entries[i].key = key
    THEN [heap EXCEPT ![sanitized.a].entries =
              [i \in 1..Len(o.entries) |->
                  IF o.entries[i].key = key THEN Entry(key, value) ELSE o.entries[i]]]
    ELSE IF key = ProtoKey /\ o.proto # Null
    THEN IF value.t \in {"ref", "null"}
         THEN [heap EXCEPT ![sanitized.a].proto = value]
         ELSE heap
    ELSE [heap EXCEPT ![sanitized.a].entries = Append(@, Entry(key, value))]

\* the results of the map are written into the array that is mapped
mapResultInPlace(heap, obj, len) == [heap |-> heap, value |-> obj]

\* obj.map(...): the new array of the length of obj that receives the results
mapResult(heap, obj, len) ==
    allocate(heap, ArrayCell([i \in 1..len |-> UndefinedValue]))

RECURSIVE deepSanitizeIn(_, _)
RECURSIVE mapItems(_, _, _, _, _)
RECURSIVE sanitizeEntriesIn(_, _, _, _)

\* obj.map(item => deepSanitize(item)) from the i-th item on: the item is
\* read from obj as it is when its turn comes, the result is stored at the
\* same index of the array A
mapItems(heap, obj, len, i, A) ==
    IF i > len THEN heap
    ELSE LET r == CHOOSE x \in {deepSanitizeIn(heap, heap[obj.a].items[i])} : TRUE IN
         mapItems([r.heap EXCEPT ![A.a].items[i] = r.value], obj, len, i + 1, A)

\* the for ... of Object.entries(obj) loop from its i-th entry on, the
\* entries being those that obj had when the loop began
sanitizeEntriesIn(heap, entries, i, sanitized) ==
    IF i > Len(entries) THEN heap
    ELSE LET key == entries[i].key
             value == entries[i].value
             cleanKey == sanitizeString(key)
         IN  IF startsWith(cleanKey, "$") \/ includes(cleanKey, ".") \/ cleanKey # key
             THEN sanitizeEntriesIn(heap, entries, i + 1, sanitized)
             ELSE LET r == CHOOSE x \in {deepSanitizeIn(heap, value)} : TRUE IN
                  sanitizeEntriesIn(setPropertyIn(r.heap, sanitized, cleanKey, r.value),
                                    entries, i + 1, sanitized)

\* deepSanitize(obj) in a heap: the heap afterwards and the value returned
deepSanitizeIn(heap, obj) ==
    IF obj.t \in {"null", "undefined"} THEN [heap |-> heap, value |-> obj]
    ELSE IF obj.t = "ref" /\ heap[obj.a].t = "array"
    THEN LET len == Len(heap[obj.a].items)
             A == mapResult(heap, obj, len)
         IN  [heap |-> mapItems(A.heap, obj, len, 1, A.value), value |-> A.value]
    ELSE IF obj.t = "ref"
    THEN LET sanitized == allocate(heap, ObjectCell(<<>>, ObjectPrototype)) IN
         [heap |-> sanitizeEntriesIn(sanitized.heap, heap[obj.a].entries, 1,
                                     sanitized.value),
          value |-> sanitized.value]
    ELSE IF obj.t = "string"
    THEN [heap |-> heap, value |-> Str(sanitizeString(obj.chars))]
    ELSE [heap |-> heap, value |-> obj]

\* The values sanitized in a heap: leaves, arrays and objects of two members
\* each of which is a leaf, an array or an object.
Pairs ==
    {Arr(<<a, b>>) : a, b \in Values}
        \cup {Obj(<<Entry(k1, a), Entry(k2, b)>>) :
                k1 \in {NameKey, ProtoKey}, k2 \in {AdminKey, WhereKey}, a, b \in Values}

HeapValues == Values \cup Pairs \cup {Bool(FALSE), UndefinedValue, Arr(<<>>), Obj(<<>>)}

----------------------------------------------------------------------------
(* middleware/sanitizer.js: the field validator; routes/protected.js *)

LetterChars == {UpperCase[i] : i \in 1..26} \cup {LowerCase[i] : i \in 1..26}

\* emailRegex = /^[^\s@]+@[^\s@]+\.[^\s@]+$/ .test(email): one @ after at
\* least one character, a dot after at least one more and before the last
\* character, no white space
emailValidator(email) ==
    /\ \A k \in 1..Len(email) : email[k] \notin SpaceChars
    /\ \E i \in 2..Len(email) :
          /\ email[i] = "@"
          /\ \A k \in 1..Len(email) : email[k] = "@" => k = i
          /\ \E j \in (i + 2)..(Len(email) - 1) : email[j] = "."

\* phoneRegex = /^\+?[\d\s\-\(\)]{10,}$/ .test(phone)
phoneNumberValidator(phone) ==
    LET rest == IF startsWith(phone, "+") THEN Tail(phone) ELSE phone IN
    Len(rest) >= 10 /\ AllIn(rest, Digits \cup SpaceChars \cup {"-", "(", ")"})

\* alphanumericRegex = /^[a-zA-Z0-9]+$/ .test(str)
alphanumericValidator(str) == Len(str) >= 1 /\ AllIn(str, LetterChars \cup Digits)

\* nameRegex = /^[a-zA-Z\s]{2,50}$/ .test(name)
nameValidator(name) == Len(name) \in 2..50 /\ AllIn(name, LetterChars \cup SpaceChars)

\* validators[type](value)
validators(type, value) ==
    IF type = "email" THEN emailValidator(value)
    ELSE IF type = "phoneNumber" THEN phoneNumberValidator(value)
    ELSE IF type = "alphanumeric" THEN alphanumericValidator(value)
    ELSE nameValidator(value)

\* a rule of a field; a rule without type has NoType, one without minLength
\* or maxLength has 0 there (undefined and 0 are both falsy)
NoType == ""
Rule(field, required, type, minLength, maxLength) ==
    [field |-> field, required |-> required, type |-> type,
     minLength |-> minLength, maxLength |-> maxLength]

\* req.body[field]: undefined when the body has no such field
fieldValue(body, field) == IF field \in DOMAIN body THEN body[field] ELSE Undefined

\* the loop body met continue after the required message, left out
fieldErrorsWithoutContinue(rules, value) ==
    (IF rules.required /\ (~Truthy(value) \/ Trim(value) = EmptyString)
     THEN <<rules.field \o " is required">> ELSE <<>>)
    \o (IF Truthy(value) /\ rules.type # NoType /\ ~validators(rules.type, value)
        THEN <<rules.field \o " has invalid format">> ELSE <<>>)
    \o (IF Truthy(value) /\ rules.minLength # 0 /\ Len(value) < rules.minLength
        THEN <<rules.field \o " must be at least " \o ToString(rules.minLength)
                 \o " characters">>
        ELSE <<>>)
    \o (IF Truthy(value) /\ rules.maxLength # 0 /\ Len(value) > rules.maxLength
        THEN <<rules.field \o " must be no more than " \o ToString(rules.maxLength)
                 \o " characters">>
        ELSE <<>>)

\* one turn of the loop over Object.entries(validationRules): the messages
\* pushed for a field with the value of the body
fieldErrors(rules, value) ==
    IF rules.required /\ (~Truthy(value) \/ Trim(value) = EmptyString)
    THEN <<rules.field \o " is required">>
    ELSE (IF Truthy(value) /\ rules.type # NoType /\ ~validators(rules.type, value)
          THEN <<rules.field \o " has invalid format">> ELSE <<>>)
         \o (IF Truthy(value) /\ rules.minLength # 0 /\ Len(value) < rules.minLength
             THEN <<rules.field \o " must be at least " \o ToString(rules.minLength)
                      \o " characters">>
             ELSE <<>>)
         \o (IF Truthy(value) /\ rules.maxLength # 0 /\ Len(value) > rules.maxLength
             THEN <<rules.field \o " must be no more than "
                      \o ToString(rules.maxLength) \o " characters">>
             ELSE <<>>)

\* the loop from the i-th rule on
RECURSIVE collectErrors(_, _, _)
collectErrors(validationRules, i, body) ==
    IF i > Len(validationRules) THEN <<>>
    ELSE fieldErrors(validationRules[i], fieldValue(body, validationRules[i].field))
            \o collectErrors(validationRules, i + 1, body)

\* createValidator(validationRules)(req, res, next) in front of a route
\* handler: the errors, whether next() was called (the handler runs then and
\* only then), and the status and message the validator responded with
createValidator(validationRules, body) ==
    LET errors == collectErrors(validationRules, 1, body) IN
    IF Len(errors) > 0
    THEN [errors |-> errors, next |-> FALSE, status |-> 400, success |-> FALSE,
          message |-> "Validation failed"]
    ELSE [errors |-> errors, next |-> TRUE, status |-> 0, success |-> TRUE,
          message |-> ""]

\* the rules of POST /api/contact
contactValidation ==
    <<Rule("name", TRUE, "name", 2, 50),
      Rule("email", TRUE, "email", 0, 0),
      Rule("message", TRUE, NoType, 10, 1000)>>

\* rules of fields that are not required, one kind each
optionalValidation ==
    <<Rule("nickname", FALSE, "alphanumeric", 3, 5),
      Rule("phone", FALSE, "phoneNumber", 0, 0)>>

RuleSets == {contactValidation, optionalValidation}

Repeat(c, n) == [i \in 1..n |-> c]

\* the values of the fields: absent, empty, blank, and strings that fail or
\* pass each of the checks
NameValues ==
    {Undefined, EmptyString, <<" ">>, <<"A">>, <<"A", "l">>, <<"A", "1">>, Repeat("a", 51)}
EmailValues == {Undefined, <<"a", "@", "b", ".", "c", "o">>, <<"a", "@", "b">>, <<"a", "@", "b", "@", "c", ".", "d">>}
MessageValues == {Undefined, <<"h", "i">>, Repeat("m", 10), Repeat("m", 1001)}
NicknameValues == {Undefined, EmptyString, <<" ">>, <<"a", "b">>, <<"a", "b", "1">>,
                   <<"a", "-", "b", "c", "d", "e">>}
PhoneValues == {Undefined, <<"+", "1", " ", "(", "5", "5", "5", ")", " ", "0", "1", "0", "-", "9", "9", "9", "9">>, <<"5", "5", "5", "-", "0", "1", "0", "0">>}

\* req.body of a request with every field given (undefined: JSON null or a
\* value left out has the same effect on the checks)
Bodies(validationRules) ==
    IF validationRules = contactValidation
    THEN {[name |-> n, email |-> m, message |-> t] :
             n \in NameValues, m \in EmailValues, t \in MessageValues}
            \cup {[email |-> m] : m \in EmailValues}
    ELSE {[nickname |-> n, phone |-> q] : n \in NicknameValues, q \in PhoneValues}

----------------------------------------------------------------------------
(* app.js: the middleware chain in front of the routes *)

\* the rate limiter is mounted in front of the guard
middlewareStackLimiterFirst == <<"rateLimiter", "ipBlacklist", "sanitizer">>

\* the guard is not mounted
middlewareStackWithoutGuard == <<"rateLimiter", "sanitizer">>

\* app.use(ipBlacklist); app.use(rateLimiter); app.use(sanitizer)
middlewareStack == <<"ipBlacklist", "rateLimiter", "sanitizer">>

\* one middleware of the stack on the request: whether it called next(), the
\* rate store afterwards, and what it wrote to the response
runMiddleware(name, req, store, bl, wl, t, random) ==
    IF name = "ipBlacklist"
    THEN LET g == ipBlacklist(req, bl, wl) IN
         [next |-> g.next, store |-> store, status |-> g.status,
          headers |-> NoHeaders, body |-> g.body]
    ELSE IF name = "rateLimiter"
    THEN LET r == rateLimiter(req, store, t, random) IN
         [next |-> r.next, store |-> r.store, status |-> r.status,
          headers |-> r.headers, body |-> r.body]
    ELSE \* sanitizer: rewrites the request's body, query and params, then next()
         [next |-> TRUE, store |-> store, status |-> 0,
          headers |-> NoHeaders, body |-> NoBody]

\* Express runs the stack from position i on: each middleware in order, the
\* next one only when next() was called, and the route handler after the last.
\* trace lists what ran; nexts, whether each called next().
RECURSIVE dispatch(_, _, _, _, _, _, _, _)
dispatch(stack, i, req, ctx, bl, wl, t, random) ==
    IF i > Len(stack)
    THEN [ctx EXCEPT !.trace = Append(@, "handler"), !.status = 200]
    ELSE LET m == runMiddleware(stack[i], req, ctx.store, bl, wl, t, random)
             after == [store |-> m.store,
                       trace |-> Append(ctx.trace, stack[i]),
                       nexts |-> Append(ctx.nexts, m.next),
                       status |-> m.status,
                       headers |-> IF m.headers = NoHeaders THEN ctx.headers ELSE m.headers,
                       body |-> m.body]
         IN  IF m.next THEN dispatch(stack, i + 1, req, after, bl, wl, t, random)
             ELSE after

\* a request through the application
handle(req, store, bl, wl, t, random) ==
    dispatch(middlewareStack, 1, req,
             [store |-> store, trace |-> <<>>, nexts |-> <<>>, status |-> 0,
              headers |-> NoHeaders, body |-> NoBody],
             bl, wl, t, random)

----------------------------------------------------------------------------
(* routes/admin.js, behind requireAdmin *)

\* successResponse(message, data): the timestamp fields are left out
successResponse(message, data) == [success |-> TRUE, message |-> message, data |-> data]

\* router.post('/blacklist') with req.body.ip: the status and body of the
\* response, the blacklist afterwards, and whether an exception left the
\* handler
postBlacklist(ip, bl, wl) ==
    IF ~Truthy(ip)
    THEN [status |-> 400, body |-> errorResponse("IP address is required", 400, NoDetails),
          blacklist |-> bl, uncaught |-> FALSE]
    ELSE LET r == addToBlacklist(ip, bl, wl) IN
         IF r.threw
         THEN [status |-> 400, body |-> errorResponse(r.error, 400, NoDetails),
               blacklist |-> r.blacklist, uncaught |-> FALSE]
         ELSE [status |-> 200,
               body |-> successResponse(
                            IF r.value THEN "IP added to blacklist"
                            ELSE "IP already blacklisted",
                            [ip |-> ip, changed |-> r.value]),
               blacklist |-> r.blacklist, uncaught |-> FALSE]

\* router.delete('/blacklist/:ip') with req.params.ip
deleteBlacklist(ip, bl) ==
    LET r == removeFromBlacklist(ip, bl) IN
    IF r.threw
    THEN [status |-> 400, body |-> errorResponse(r.error, 400, NoDetails),
          blacklist |-> r.blacklist, uncaught |-> FALSE]
    ELSE [status |-> 200,
          body |-> successResponse(
                       IF r.value THEN "IP removed from blacklist"
                       ELSE "IP not found in blacklist",
                       [ip |-> ip, changed |-> r.value]),
          blacklist |-> r.blacklist, uncaught |-> FALSE]

\* the values of :ip in a path: non-empty strings
PathArgs == {ip \in AdminArgs : Truthy(ip)}

----------------------------------------------------------------------------
(* middleware/auth.js; routes/admin.js behind requireAdmin *)

\* ADMIN_API_KEY, with process.env.ADMIN_API_KEY not set
ADMIN_API_KEY ==
    <<"a", "d", "m", "i", "n", "-", "s", "e", "c", "r", "e", "t", "-",
      "k", "e", "y", "-", "2", "0", "2", "4">>

\* authHeader.split(' ') from the i-th character on, with the parts split
\* off so far and the characters of the part under way
RECURSIVE splitFrom(_, _, _, _, _)
splitFrom(s, i, sep, parts, part) ==
    IF i > Len(s) THEN Append(parts, part)
    ELSE IF s[i] = sep THEN splitFrom(s, i + 1, sep, Append(parts, part), <<>>)
    ELSE splitFrom(s, i + 1, sep, parts, Append(part, s[i]))

\* every token that is not empty passes
requireAdminAnyToken(authorization) ==
    IF ~Truthy(authorization)
    THEN [next |-> FALSE, status |-> 401,
          body |-> errorResponse("Authorization header required", 401, NoDetails)]
    ELSE LET parts == splitFrom(authorization, 1, " ", <<>>, <<>>)
             token == IF Len(parts) >= 2 THEN parts[2] ELSE Undefined
         IN  IF ~Truthy(token)
             THEN [next |-> FALSE, status |-> 401,
                   body |-> errorResponse("Invalid authorization format", 401, NoDetails)]
             ELSE [next |-> TRUE, status |-> 0, body |-> NoBody]

\* requireAdmin(req, res, next) with req.headers.authorization: whether
\* next() was called, and the response otherwise
requireAdmin(authorization) ==
    IF ~Truthy(authorization)
    THEN [next |-> FALSE, status |-> 401,
          body |-> errorResponse("Authorization header required", 401, NoDetails)]
    ELSE LET parts == splitFrom(authorization, 1, " ", <<>>, <<>>)
             token == IF Len(parts) >= 2 THEN parts[2] ELSE Undefined
         IN  IF ~Truthy(token)
             THEN [next |-> FALSE, status |-> 401,
                   body |-> errorResponse("Invalid authorization format", 401, NoDetails)]
             ELSE IF token # ADMIN_API_KEY
             THEN [next |-> FALSE, status |-> 403,
                   body |-> errorResponse("Invalid API key", 403, NoDetails)]
             ELSE [next |-> TRUE, status |-> 0, body |-> NoBody]

\* getBlacklistStats(): the sorted array of the blacklist and the array of
\* the whitelist are kept as the sets they list
getBlacklistStats(bl, wl) ==
    [totalBlacklisted |-> Cardinality(bl), blacklistedIPs |-> bl, whitelistedIPs |-> wl]

Routes ==
    {"GET /blacklist", "POST /blacklist", "DELETE /blacklist/:ip",
     "GET /rate-limit-status", "POST /rate-limit/reset/:ip", "GET /stats"}

\* the router of routes/admin.js on a request for one of its routes, with the
\* authorization header and the address in the body or in the path: the
\* response, the blacklist and the rate store afterwards, and whether
\* req.isAdmin was set.  The server section of GET /stats is left out.
adminRouter(route, authorization, ip, bl, wl, store, t) ==
    LET auth == requireAdmin(authorization)
        ok(body, blacklist, rates) ==
            [status |-> 200, body |-> body, blacklist |-> blacklist, store |-> rates,
             isAdmin |-> TRUE]
    IN
    IF ~auth.next
    THEN [status |-> auth.status, body |-> auth.body, blacklist |-> bl, store |-> store,
          isAdmin |-> FALSE]
    ELSE IF route = "GET /blacklist"
    THEN ok(successResponse("Blacklist retrieved", getBlacklistStats(bl, wl)), bl, store)
    ELSE IF route = "POST /blacklist"
    THEN LET r == postBlacklist(ip, bl, wl) IN
         [status |-> r.status, body |-> r.body, blacklist |-> r.blacklist, store |-> store,
          isAdmin |-> TRUE]
    ELSE IF route = "DELETE /blacklist/:ip"
    THEN LET r == deleteBlacklist(ip, bl) IN
         [status |-> r.status, body |-> r.body, blacklist |-> r.blacklist, store |-> store,
          isAdmin |-> TRUE]
    ELSE IF route = "GET /rate-limit-status"
    THEN ok(successResponse("Rate limit stats retrieved", getRateLimitStats(store, t)),
            bl, store)
    ELSE IF route = "POST /rate-limit/reset/:ip"
    THEN LET r == resetRateLimit(ip, store) IN
         ok(successResponse(IF r.deleted THEN "Rate limit reset for IP"
                            ELSE "No rate limit data found for IP",
                            [ip |-> ip, changed |-> r.deleted]),
            bl, r.store)
    ELSE ok(successResponse("System statistics",
                [security |-> [blacklist |-> getBlacklistStats(bl, wl),
                               rateLimit |-> getRateLimitStats(store, t)]]),
            bl, store)

\* Authorization headers.  Every route is asked for without a header, with a
\* wrong token and with the key; the reset route also with an empty header,
\* with a scheme without a token or with an empty one, with the key without
\* a scheme, and with the key after another scheme
Bearer == <<"B", "e", "a", "r", "e", "r">>
WrongToken == Bearer \o <<" ">> \o <<"a", "d", "m", "i", "n">>
BearerKey == Bearer \o <<" ">> \o ADMIN_API_KEY
AuthorizationHeaders(route) ==
    {Undefined, WrongToken, BearerKey}
        \cup (IF route = "POST /rate-limit/reset/:ip"
              THEN {EmptyString, Bearer, Bearer \o <<" ">>, ADMIN_API_KEY,
                    <<"B", "a", "s", "i", "c", " ">> \o ADMIN_API_KEY}
              ELSE {})

\* the addresses given to a route: in the body of POST /blacklist, in the
\* path of the routes with :ip, none otherwise
RouteArgs(route) ==
    IF route \in {"POST /blacklist", "DELETE /blacklist/:ip"} THEN {PublicIp, Malformed}
    ELSE IF route = "POST /rate-limit/reset/:ip" THEN {Localhost, PublicIp}
    ELSE {Undefined}

----------------------------------------------------------------------------
(* The state machine *)

LimiterKeys == {limiterKey(r) : r \in Requests}

NoRequest == Request(Undefined, Undefined, Undefined)

\* the record of an operation: a request's response, or a call's result;
\* again tells that the operation before it was the same call
NoOp ==
    [op |-> "none", req |-> NoRequest, arg |-> Undefined, random |-> FALSE,
     again |-> FALSE,
     threw |-> FALSE, error |-> "", value |-> FALSE, stats |-> NoStats,
     authorization |-> Undefined, isAdmin |-> FALSE,
     status |-> 0, headers |-> NoHeaders, body |-> NoBody,
     trace |-> <<>>, nexts |-> <<>>]

\* no burst under way for a key
NoBurst == [start |-> -1, calls |-> 0, admitted |-> 0]
NoLockout == [key |-> Undefined, readmitted |-> FALSE]

Init ==
    /\ now = 0
    /\ rateStore = <<>>
    /\ blacklistedIPs = SeedBlacklist
    /\ whitelistedIPs = SeedWhitelist
    /\ last = NoOp
    /\ recent = [k \in LimiterKeys |-> <<>>]
    /\ admittedOnce = [k \in LimiterKeys |-> FALSE]
    /\ burst = [k \in LimiterKeys |-> NoBurst]
    /\ lockout = NoLockout
    /\ input = UndefinedValue
    /\ output = Pending

\* the clock advances by a millisecond: admissions that left the trailing
\* window leave the history, and a burst ends once it is windowMs old
Tick ==
    /\ now < MaxTime
    /\ now' = now + 1
    /\ last' = NoOp
    /\ recent' = [k \in LimiterKeys |->
                    LET stillInside(t) == t > now' - windowMs IN SelectSeq(recent[k], stillInside)]
    /\ burst' = [k \in LimiterKeys |->
                    IF burst[k] # NoBurst /\ now' - burst[k].start >= windowMs
                    THEN NoBurst ELSE burst[k]]
    /\ lockout' = IF lockout.readmitted THEN NoLockout ELSE lockout
    /\ UNCHANGED <<rateStore, blacklistedIPs, whitelistedIPs, admittedOnce, input, output>>

Position(trace, name) == {i \in 1..Len(trace) : trace[i] = name}

\* a request arrives and runs through the chain
HandleRequest(req, random) ==
    \E out \in {handle(req, rateStore, blacklistedIPs, whitelistedIPs, now, random)} :
    LET key == limiterKey(req)
        ran == Position(out.trace, "rateLimiter") # {}
        passed == \E i \in Position(out.trace, "rateLimiter") : out.nexts[i]
        fresh == key \notin DOMAIN rateStore
    IN  /\ burst[key].calls < MaxCalls
        /\ rateStore' = out.store
        /\ last' = [NoOp EXCEPT !.op = "request", !.req = req, !.random = random,
                                !.again = (last.op = "request" /\ last.req = req
                                           /\ last.random = random),
                                !.status = out.status, !.headers = out.headers,
                                !.body = out.body, !.trace = out.trace,
                                !.nexts = out.nexts]
        /\ recent' = IF passed THEN [recent EXCEPT ![key] = Append(@, now)] ELSE recent
        /\ admittedOnce' = IF passed THEN [admittedOnce EXCEPT ![key] = TRUE] ELSE admittedOnce
        /\ burst' =
            IF ~ran \/ (~fresh /\ burst[key] = NoBurst) THEN burst
            ELSE LET b == IF fresh THEN [NoBurst EXCEPT !.start = now] ELSE burst[key] IN
                 [burst EXCEPT ![key] =
                    [b EXCEPT !.calls = @ + 1,
                              !.admitted = IF passed THEN @ + 1 ELSE @]]
        /\ lockout' =
            IF ran /\ ~passed THEN [key |-> key, readmitted |-> FALSE]
            ELSE IF passed /\ lockout.key = key /\ ~lockout.readmitted
            THEN [key |-> key, readmitted |-> TRUE]
            ELSE NoLockout
        /\ UNCHANGED <<now, blacklistedIPs, whitelistedIPs, input, output>>

AddToBlacklist(ip) ==
    \E r \in {addToBlacklist(ip, blacklistedIPs, whitelistedIPs)} :
    /\ blacklistedIPs' = r.blacklist
    /\ last' = [NoOp EXCEPT !.op = "addToBlacklist", !.arg = ip,
                            !.again = (last.op = "addToBlacklist" /\ last.arg = ip),
                            !.threw = r.threw,
                            !.error = r.error, !.value = r.value]
    /\ UNCHANGED <<lockout, now, rateStore, whitelistedIPs, recent, admittedOnce, burst, input, output>>

RemoveFromBlacklist(ip) ==
    \E r \in {removeFromBlacklist(ip, blacklistedIPs)} :
    /\ blacklistedIPs' = r.blacklist
    /\ last' = [NoOp EXCEPT !.op = "removeFromBlacklist", !.arg = ip,
                            !.again = (last.op = "removeFromBlacklist" /\ last.arg = ip),
                            !.threw = r.threw,
                            !.error = r.error, !.value = r.value]
    /\ UNCHANGED <<lockout, now, rateStore, whitelistedIPs, recent, admittedOnce, burst, input, output>>

ClearBlacklist ==
    \E r \in {clearBlacklist(blacklistedIPs)} :
    /\ blacklistedIPs' = r.blacklist
    /\ last' = [NoOp EXCEPT !.op = "clearBlacklist",
                            !.again = (last.op = "clearBlacklist")]
    /\ UNCHANGED <<lockout, now, rateStore, whitelistedIPs, recent, admittedOnce, burst, input, output>>

ResetRateLimit(ip) ==
    \E r \in {resetRateLimit(ip, rateStore)} :
    /\ rateStore' = r.store
    /\ last' = [NoOp EXCEPT !.op = "resetRateLimit", !.arg = ip,
                            !.again = (last.op = "resetRateLimit" /\ last.arg = ip),
                            !.value = r.deleted]
    /\ recent' = [k \in LimiterKeys |-> IF k = ip THEN <<>> ELSE recent[k]]
    /\ admittedOnce' = [k \in LimiterKeys |-> IF k = ip THEN FALSE ELSE admittedOnce[k]]
    /\ burst' = [k \in LimiterKeys |-> IF k = ip THEN NoBurst ELSE burst[k]]
    /\ lockout' = NoLockout
    /\ UNCHANGED <<now, blacklistedIPs, whitelistedIPs, input, output>>

\* POST /api/admin/blacklist with the address in the body
PostBlacklist(ip) ==
    \E r \in {postBlacklist(ip, blacklistedIPs, whitelistedIPs)} :
    /\ blacklistedIPs' = r.blacklist
    /\ last' = [NoOp EXCEPT !.op = "POST /blacklist", !.arg = ip,
                            !.again = (last.op = "POST /blacklist" /\ last.arg = ip),
                            !.threw = r.uncaught,
                            !.status = r.status, !.body = r.body]
    /\ UNCHANGED <<lockout, now, rateStore, whitelistedIPs, recent, admittedOnce, burst, input, output>>

\* DELETE /api/admin/blacklist/:ip
DeleteBlacklist(ip) ==
    \E r \in {deleteBlacklist(ip, blacklistedIPs)} :
    /\ blacklistedIPs' = r.blacklist
    /\ last' = [NoOp EXCEPT !.op = "DELETE /blacklist/:ip", !.arg = ip,
                            !.again = (last.op = "DELETE /blacklist/:ip" /\ last.arg = ip),
                            !.threw = r.uncaught,
                            !.status = r.status, !.body = r.body]
    /\ UNCHANGED <<lockout, now, rateStore, whitelistedIPs, recent, admittedOnce, burst, input, output>>

\* getRateLimitStats() is called
GetRateLimitStats ==
    /\ last' = [NoOp EXCEPT !.op = "getRateLimitStats",
                            !.again = (last.op = "getRateLimitStats"),
                            !.stats = getRateLimitStats(rateStore, now)]
    /\ UNCHANGED <<lockout, now, rateStore, blacklistedIPs, whitelistedIPs, recent, admittedOnce,
                   burst, input, output>>

\* a request for a route of routes/admin.js reaches the router
AdminRoute(route, authorization, ip) ==
    \E r \in {adminRouter(route, authorization, ip, blacklistedIPs, whitelistedIPs,
                          rateStore, now)} :
    LET reset == r.isAdmin /\ route = "POST /rate-limit/reset/:ip" IN
    /\ blacklistedIPs' = r.blacklist
    /\ rateStore' = r.store
    /\ last' = [NoOp EXCEPT !.op = route, !.arg = ip, !.authorization = authorization,
                            !.again = (/\ last.op = route
                                       /\ last.arg = ip
                                       /\ last.authorization = authorization),
                            !.isAdmin = r.isAdmin,
                            !.status = r.status, !.body = r.body]
    /\ recent' = [k \in LimiterKeys |-> IF reset /\ k = ip THEN <<>> ELSE recent[k]]
    /\ admittedOnce' = [k \in LimiterKeys |->
                          IF reset /\ k = ip THEN FALSE ELSE admittedOnce[k]]
    /\ burst' = [k \in LimiterKeys |-> IF reset /\ k = ip THEN NoBurst ELSE burst[k]]
    /\ lockout' = IF reset THEN NoLockout ELSE lockout
    /\ UNCHANGED <<now, whitelistedIPs, input, output>>

\* requests and the administration of the blacklist, within one millisecond
NextGuard ==
    \/ \E req \in Requests, random \in BOOLEAN : HandleRequest(req, random)
    \/ \E ip \in AdminArgs : AddToBlacklist(ip)
    \/ \E ip \in AdminArgs : RemoveFromBlacklist(ip)
    \/ ClearBlacklist

SpecGuard == Init /\ [][NextGuard]_vars

\* the administration of the blacklist alone, by the functions and by the
\* routes of routes/admin.js
NextAdmin ==
    \/ \E ip \in AdminArgs : AddToBlacklist(ip)
    \/ \E ip \in AdminArgs : RemoveFromBlacklist(ip)
    \/ ClearBlacklist
    \/ \E ip \in AdminArgs : PostBlacklist(ip)
    \/ \E ip \in PathArgs : DeleteBlacklist(ip)

SpecAdmin == Init /\ [][NextAdmin]_vars

\* requests, which fill the rate store, and requests for the admin routes
\* with any authorization header, within one millisecond
NextRouter ==
    \/ \E req \in Requests : HandleRequest(req, FALSE)
    \/ \E route \in Routes :
          \E authorization \in AuthorizationHeaders(route), ip \in RouteArgs(route) :
              AdminRoute(route, authorization, ip)

SpecRouter == Init /\ [][NextRouter]_vars

\* requests, resets of the rate limit and the passing of time, the blacklist
\* left as seeded
NextLimiter ==
    \/ Tick
    \/ \E req \in Requests, random \in BOOLEAN : HandleRequest(req, random)
    \/ \E ip \in ResetArgs : ResetRateLimit(ip)

SpecLimiter == Init /\ [][NextLimiter]_vars

\* the same, and the statistics of the rate limiter read at any point
NextStats ==
    \/ Tick
    \/ \E req \in Requests, random \in BOOLEAN : HandleRequest(req, random)
    \/ \E ip \in ResetArgs : ResetRateLimit(ip)
    \/ GetRateLimitStats

SpecStats == Init /\ [][NextStats]_vars

\* deepSanitize(value) called on a value, as the sanitizer does on req.body,
\* req.query and req.params; the function keeps no state between calls, so a
\* behaviour holds one call
DeepSanitize(value) ==
    /\ output = Pending
    /\ input' = value
    /\ output' = deepSanitize(value)
    /\ UNCHANGED <<lockout, now, rateStore, blacklistedIPs, whitelistedIPs, last, recent,
                   admittedOnce, burst>>

\* deepSanitize(value) called on a value that the body parser built in the
\* heap: the heap and the argument before the call, the heap and the value
\* returned after it
DeepSanitizeIn(value) ==
    \E built \in {parse(<<>>, value)} :
        /\ output = Pending
        /\ input' = built
        /\ output' = deepSanitizeIn(built.heap, built.value)
        /\ UNCHANGED <<lockout, now, rateStore, blacklistedIPs, whitelistedIPs, last, recent,
                       admittedOnce, burst>>

NextHeap ==
    \E value \in HeapValues : DeepSanitizeIn(value)

SpecHeap == Init /\ [][NextHeap]_vars

\* the characters the strings given to sanitizeString are written with: the
\* six it encodes and those its entities are written with besides
StringChars == {"&", "<", ">", "\"", "'", "/", ";", "#", "a"}

\* the longest of those strings
MaxStringLen == 3

\* strings that were encoded before, and markup the three removals match
EncodedBefore == {AmpEntity, LtEntity, AposEntity, AmpEntity \o LtEntity}

\* an element with an event handler, and an opening script tag left unclosed
HandlerText == <<"<", "a", " ", "o", "n", "x", "=", "'", "/", "'", ">">>
UnclosedScript == ScriptOpen \o <<">", "&">>

Strings ==
    UNION {[1..n -> StringChars] : n \in 0..MaxStringLen}
        \cup EncodedBefore
        \cup {ScriptText, SchemeText, QueryText, PlainText, HandlerText, UnclosedScript}

\* sanitizeString(str) called on a string
SanitizeString(str) ==
    /\ output = Pending
    /\ input' = Str(str)
    /\ output' = Str(sanitizeString(str))
    /\ UNCHANGED <<lockout, now, rateStore, blacklistedIPs, whitelistedIPs, last, recent,
                   admittedOnce, burst>>

NextString ==
    \E str \in Strings : SanitizeString(str)

SpecString == Init /\ [][NextString]_vars

\* the sanitizer on its own: it shares no state with the guard and the limiter
NextSanitize ==
    \E value \in StructuredValues : DeepSanitize(value)

SpecSanitize == Init /\ [][NextSanitize]_vars

\* POST /api/contact, or a route behind another validator, from the validator
\* on: it reads the body alone and keeps no state, so a behaviour holds one
\* call
Validate(validationRules, body) ==
    /\ output = Pending
    /\ input' = [validationRules |-> validationRules, body |-> body]
    /\ output' = createValidator(validationRules, body)
    /\ UNCHANGED <<lockout, now, rateStore, blacklistedIPs, whitelistedIPs, last, recent,
                   admittedOnce, burst>>

NextValidator ==
    \E validationRules \in RuleSets :
        \E body \in Bodies(validationRules) : Validate(validationRules, body)

SpecValidator == Init /\ [][NextValidator]_vars

\* getClientIP(req) called on a request; the function reads the request
\* alone, so a behaviour holds one call
GetClientIP(req) ==
    /\ output = Pending
    /\ input' = req
    /\ output' = [clientIP |-> getClientIP(req)]
    /\ UNCHANGED <<lockout, now, rateStore, blacklistedIPs, whitelistedIPs, last, recent,
                   admittedOnce, burst>>

NextClientIP ==
    \E req \in RequestShapes : GetClientIP(req)

SpecClientIP == Init /\ [][NextClientIP]_vars

Next == NextGuard \/ NextAdmin \/ NextRouter \/ NextLimiter \/ NextStats \/ NextString \/ NextHeap \/ NextSanitize \/ NextValidator \/ NextClientIP

Spec == Init /\ [][Next]_vars

----------------------------------------------------------------------------
(* Claims about the rate limiter, under SpecLimiter *)

\* Every action writes its own record to last, so that a step whose last'
\* records a request is a request, and a call repeated is a step that changes
\* last.again.

\* the limiter ran on the last request, and the key it filed it under
LimiterRan == last.op = "request" /\ Position(last.trace, "rateLimiter") # {}
LimiterDenied == LimiterRan /\ last.status = 429
LastKey == limiterKey(last.req)

\* how many elements of the sequence s lie in the window of the windowMs
\* instants that ends at t
InWindowEndingAt(s, t) ==
    Cardinality({i \in 1..Len(s) : t - windowMs < s[i] /\ s[i] <= t})

\* C1: for every key, no window of windowMs instants holds more than
\* maxRequests of the timestamps retained for the key, nor more than
\* maxRequests admissions of the key (since its last reset); and a request
\* that arrives while maxRequests admissions of its key lie inside the
\* trailing window is answered 429 and no handler runs.
C1_WindowNeverExceeded ==
    /\ [](\A k \in DOMAIN rateStore : \A t \in 0..(MaxTime + windowMs) :
            InWindowEndingAt(rateStore[k].requests, t) <= maxRequests)
    /\ [](\A k \in LimiterKeys : Len(recent[k]) <= maxRequests)
    /\ [][(/\ last'.op = "request"
            /\ Len(recent[limiterKey(last'.req)]) >= maxRequests
            /\ ipBlacklist(last'.req, blacklistedIPs, whitelistedIPs).next)
           => (/\ last'.status = 429
               /\ last'.trace = <<"ipBlacklist", "rateLimiter">>
               /\ recent' = recent)]_vars

\* a request was denied with maxRequests timestamps retained for its key
C1_Witness ==
    /\ LimiterDenied
    /\ Len(rateStore[LastKey].requests) = maxRequests
    /\ Len(recent[LastKey]) = maxRequests

\* C2: while a burst of rateLimiter calls for a key that had no record is
\* less than windowMs old, whatever else was interleaved with it, exactly
\* min(calls, maxRequests) of its calls were admitted and the key's record
\* holds exactly the instants of those admissions.
C2_BurstAdmitsExactlyMin ==
    \A k \in LimiterKeys :
        burst[k] # NoBurst =>
            /\ burst[k].admitted = Min(burst[k].calls, maxRequests)
            /\ k \in DOMAIN rateStore
            /\ rateStore[k].requests = recent[k]
            /\ Len(recent[k]) = burst[k].admitted

\* a burst of more than maxRequests calls, of which maxRequests were admitted
C2_Witness ==
    \E k \in LimiterKeys :
        /\ burst[k].calls > maxRequests
        /\ burst[k].admitted = maxRequests
        /\ \E j \in LimiterKeys : j # k /\ burst[j].calls > 0

\* C3: every denial by the rate limiter carries a retry-after value, in the
\* Retry-After header and in the body's details, that is greater than 0 and
\* is the time in seconds until the oldest retained timestamp of the key
\* leaves the window.
C3_RetryAfterPositive ==
    LimiterDenied =>
        LET oldest == rateStore[LastKey].requests[1]
            untilExpiry == Ceil(oldest + windowMs - now, MsPerSecond)
        IN  /\ last.headers.retryAfter > 0
            /\ last.headers.retryAfter = untilExpiry
            /\ last.body.details.retryAfter = untilExpiry

\* the limiter ran on the last request and called next()
LimiterAdmitted == LimiterRan /\ last.nexts[Len(last.nexts)] /\ last.status = 200

\* the timestamps of key k in the store that the filter keeps at the instant t
Retained(store, k, t) ==
    IF k \notin DOMAIN store THEN <<>>
    ELSE LET Kept(timestamp) == timestamp > t - windowMs IN
         SelectSeq(store[k].requests, Kept)

\* C15, as claimed: on every admitted rateLimiter call the remaining reported
\* is maxRequests - count, count being the number of timestamps retained for
\* the key once the expired ones were dropped: the count compared with
\* maxRequests.
C15_RemainingIsLimitMinusCount ==
    [][(/\ last'.op = "request"
        /\ Position(last'.trace, "rateLimiter") # {}
        /\ last'.status = 200)
       => last'.headers.remaining
            = maxRequests - Len(Retained(rateStore, limiterKey(last'.req), now))]_vars

\* C15, amended: on every admitted rateLimiter call the remaining reported is
\* maxRequests - (count + 1), count being the number of timestamps retained
\* for the key once the expired ones were dropped: the request just admitted
\* is counted, so the value is maxRequests minus the length of the record
\* after the call, from maxRequests - 1 on a key without history down to 0.
C15_RemainingCountsThisRequest ==
    [][(/\ last'.op = "request"
        /\ Position(last'.trace, "rateLimiter") # {}
        /\ last'.status = 200)
       => LET k == limiterKey(last'.req) IN
          /\ last'.headers.remaining = maxRequests - (Len(Retained(rateStore, k, now)) + 1)
          /\ last'.headers.remaining = maxRequests - Len(rateStore'[k].requests)
          /\ last'.headers.remaining \in 0..(maxRequests - 1)
          /\ last'.headers.limit = maxRequests]_vars

\* the last request the limit allows was admitted, with nothing remaining
C15_Witness ==
    /\ LimiterAdmitted
    /\ last.headers.remaining = 0
    /\ Len(rateStore[LastKey].requests) = maxRequests

\* C20: right after a rateLimiter call for a key at the instant now, admitted
\* or denied, the key has a record and every timestamp t retained in it
\* satisfies now - windowMs < t <= now; the call dropped the timestamps
\* <= now - windowMs before it decided.
C20_RetainedInsideWindow ==
    /\ [](LimiterRan =>
            /\ LastKey \in DOMAIN rateStore
            /\ \A i \in 1..Len(rateStore[LastKey].requests) :
                  /\ now - windowMs < rateStore[LastKey].requests[i]
                  /\ rateStore[LastKey].requests[i] <= now)
    /\ [][(last'.op = "request" /\ Position(last'.trace, "rateLimiter") # {}) =>
            LET k == limiterKey(last'.req) IN
            rateStore'[k].requests =
                Retained(rateStore, k, now)
                    \o (IF last'.status = 200 THEN <<now>> ELSE <<>>)]_vars

\* a call for a key whose record held only timestamps that had left the
\* window: they were dropped, and the record holds the call's instant alone
C20_Witness ==
    /\ LimiterAdmitted
    /\ now >= windowMs
    /\ burst[LastKey] = NoBurst
    /\ rateStore[LastKey].requests = <<now>>

\* the record of key k is empty, or its most recent timestamp is older than
\* the window that ends at t (it lies before t - windowMs)
Stale(store, k, t) ==
    Len(store[k].requests) = 0 \/ MaxOf(store[k].requests) < t - windowMs

\* C22: the sweep, which runs at the end of an admitted call when the draw
\* says so, deletes exactly the records that are empty or whose most recent
\* timestamp is older than the window, and changes no record it keeps; no
\* record it deletes holds a timestamp that the filter of a call at this or
\* any later instant would retain.  Therefore the sweeps change no outcome: in
\* every state the timestamps of a key that the filter would retain are the
\* admissions of the key inside the trailing window since its last reset, a
\* history that no sweep touches, and every call is admitted exactly when
\* fewer than maxRequests of them exist, and reports the remaining that
\* follows from them, whether or not sweeps have run.
C22_SweepChangesNoOutcome ==
    /\ [][(last'.op = "request" /\ Position(last'.trace, "rateLimiter") # {}) =>
            LET k == limiterKey(last'.req)
                swept == last'.random /\ last'.status = 200
            IN  /\ k \in DOMAIN rateStore'
                /\ \A j \in DOMAIN rateStore \ {k} :
                      /\ j \notin DOMAIN rateStore' <=> (swept /\ Stale(rateStore, j, now))
                      /\ j \in DOMAIN rateStore' => rateStore'[j] = rateStore[j]
                      /\ j \notin DOMAIN rateStore' =>
                            \A t \in now..(MaxTime + windowMs) :
                                Retained(rateStore, j, t) = <<>>
                /\ DOMAIN rateStore' \subseteq DOMAIN rateStore \cup {k}]_vars
    /\ [](\A k \in LimiterKeys : Retained(rateStore, k, now) = recent[k])
    /\ [][(last'.op = "request" /\ Position(last'.trace, "rateLimiter") # {}) =>
            LET k == limiterKey(last'.req) IN
            /\ last'.status = 200 <=> Len(recent[k]) < maxRequests
            /\ last'.status = 429 <=> Len(recent[k]) >= maxRequests
            /\ last'.headers.remaining = Max(0, maxRequests - Len(recent'[k]))]_vars

\* a sweep deleted the record of a key that had been admitted, as the call
\* of another key was admitted
C22_Witness ==
    /\ LimiterAdmitted
    /\ last.random
    /\ \E k \in LimiterKeys :
          /\ k # LastKey
          /\ admittedOnce[k]
          /\ k \notin DOMAIN rateStore

\* C25: a denied rateLimiter call appends no timestamp: it leaves in the
\* key's record the timestamps that were inside the window, the admissions
\* of the key, and the history of admissions as it was.  So denials never
\* extend the lockout: every call is admitted exactly when fewer than
\* maxRequests timestamps of the key remain inside the trailing window, and
\* the first request of a key after a denial of that key is admitted exactly
\* when the oldest timestamp the denial left in the record has left the
\* window.
C25_DenialsExtendNoLockout ==
    /\ [][(/\ last'.op = "request"
           /\ Position(last'.trace, "rateLimiter") # {}
           /\ last'.status = 429)
          => LET k == limiterKey(last'.req) IN
             /\ k \in DOMAIN rateStore
             /\ Len(rateStore'[k].requests) = maxRequests
             /\ rateStore'[k].requests = recent[k]
             /\ \A i \in 1..Len(rateStore'[k].requests) :
                   \E j \in 1..Len(rateStore[k].requests) :
                       rateStore[k].requests[j] = rateStore'[k].requests[i]
             /\ recent' = recent]_vars
    /\ [][(last'.op = "request" /\ Position(last'.trace, "rateLimiter") # {})
          => LET k == limiterKey(last'.req) IN
             last'.status = 200 <=> Len(Retained(rateStore, k, now)) < maxRequests]_vars
    /\ [][(/\ last'.op = "request"
           /\ Position(last'.trace, "rateLimiter") # {}
           /\ lockout.key = limiterKey(last'.req)
           /\ ~lockout.readmitted)
          => LET k == limiterKey(last'.req) IN
             /\ Len(rateStore[k].requests) = maxRequests
             /\ last'.status = 200 <=> rateStore[k].requests[1] <= now - windowMs
             /\ last'.status = 429 <=> rateStore[k].requests[1] > now - windowMs]_vars

\* a key was denied, sent nothing that was admitted while the clock advanced,
\* and its next request was admitted
C25_Witness ==
    /\ LimiterAdmitted
    /\ lockout.readmitted
    /\ lockout.key = LastKey
    /\ now >= windowMs

\* the key that the step's operation, a request that reached the limiter or
\* a reset, acted for
ActedFor(op) == IF op.op = "request" THEN limiterKey(op.req) ELSE op.arg

\* what C26 says of outcomes: a request of key k is admitted exactly when
\* fewer than maxRequests timestamps of k's own record lie inside the trailing
\* window, and the remaining it reports follows from them alone; and a
\* request, with the sweep it may run, or a reset for a key leaves the
\* timestamps inside the trailing window of every other key as they were,
\* and leaves k's own as they were when it is a request denied.
OutcomeByOwnRecord ==
    /\ (last'.op = "request" /\ Position(last'.trace, "rateLimiter") # {}) =>
          LET own == Retained(rateStore, limiterKey(last'.req), now) IN
          /\ last'.status = 200 <=> Len(own) < maxRequests
          /\ last'.status = 200 => last'.headers.remaining = maxRequests - (Len(own) + 1)
          /\ last'.status # 200 => last'.status = 429 /\ last'.headers.remaining = 0
    /\ last'.op \in {"request", "resetRateLimit"} =>
          \A j \in LimiterKeys \ {ActedFor(last')} :
              /\ Retained(rateStore', j, now') = Retained(rateStore, j, now)
              /\ last'.op = "resetRateLimit" =>
                    /\ j \in DOMAIN rateStore' <=> j \in DOMAIN rateStore
                    /\ j \in DOMAIN rateStore => rateStore'[j] = rateStore[j]

\* C26, as claimed: rate-limit state is isolated per key.  The outcome and
\* the remaining of a request of key k depend on k's own record alone, which
\* requests, resets and sweeps of other keys do not change; and a rateLimiter
\* call for k modifies no timestamp of the record of any other key.
C26_OtherRecordsUntouched ==
    [][/\ OutcomeByOwnRecord
       /\ (last'.op = "request" /\ Position(last'.trace, "rateLimiter") # {}) =>
             \A j \in DOMAIN rateStore \ {limiterKey(last'.req)} :
                 /\ j \in DOMAIN rateStore'
                 /\ rateStore'[j].requests = rateStore[j].requests]_vars

\* C26, amended: rate-limit state is isolated per key.  The outcome and the
\* remaining of a request of key k depend on k's own record alone, which
\* requests, resets and sweeps of other keys do not change; and a rateLimiter
\* call for k leaves the record of every other key as it was, except that the
\* sweep an admitted call may run deletes the records of other keys of which
\* no timestamp lies inside the trailing window.
C26_IsolatedPerKey ==
    [][/\ OutcomeByOwnRecord
       /\ (last'.op = "request" /\ Position(last'.trace, "rateLimiter") # {}) =>
             \A j \in DOMAIN rateStore \ {limiterKey(last'.req)} :
                 \/ /\ j \in DOMAIN rateStore'
                    /\ rateStore'[j] = rateStore[j]
                 \/ /\ j \notin DOMAIN rateStore'
                    /\ last'.random
                    /\ last'.status = 200
                    /\ Retained(rateStore, j, now) = <<>>]_vars

\* a request of a key was denied while another key, with a record of its
\* own, had requests left
C26_Witness ==
    /\ LimiterDenied
    /\ \E j \in LimiterKeys :
          /\ j # LastKey
          /\ j \in DOMAIN rateStore
          /\ Len(Retained(rateStore, j, now)) \in 1..(maxRequests - 1)

----------------------------------------------------------------------------
(* Claims about the statistics of the rate limiter, under SpecStats *)

\* C21: getRateLimitStats reports totalIPs equal to the number of keys
\* tracked, and activeConnections equal to the number of tracked keys with at
\* least one timestamp inside the trailing window at the instant of the call:
\* a key whose timestamps have all left the window is not counted as active.
C21_ActiveInsideWindow ==
    last.op = "getRateLimitStats" =>
        /\ last.stats.totalIPs = Cardinality(DOMAIN rateStore)
        /\ last.stats.activeConnections =
              Cardinality({k \in DOMAIN rateStore : Len(Retained(rateStore, k, now)) > 0})

----------------------------------------------------------------------------
(* Claims about the blacklist guard, under SpecGuard *)

\* C4: in every reachable state of the two sets, a request whose client key
\* is whitelisted passes the guard (next() is called, no 403), whether or not
\* the key is in the blacklist: the request just handled did, and every
\* request would, with its key in the blacklist or not.
C4_WhitelistOverrides ==
    /\ (last.op = "request" /\ getClientIP(last.req) \in whitelistedIPs) =>
            /\ last.trace[1] = "ipBlacklist"
            /\ last.nexts[1]
            /\ last.status # 403
    /\ \A req \in Requests :
            LET clientIP == getClientIP(req) IN
            clientIP \in whitelistedIPs =>
                /\ ipBlacklist(req, blacklistedIPs \cup {clientIP}, whitelistedIPs).next
                /\ ipBlacklist(req, blacklistedIPs \ {clientIP}, whitelistedIPs).next

\* a whitelisted client was served after the blacklist was changed
C4_Witness ==
    /\ last.op = "request"
    /\ getClientIP(last.req) \in whitelistedIPs
    /\ last.nexts[1]
    /\ blacklistedIPs # SeedBlacklist

\* C5: addToBlacklist(a) with a whitelisted address a always fails with the
\* whitelist-conflict error and leaves both sets as they were.
C5_WhitelistedAddFailsWithConflict ==
    [][(last'.op = "addToBlacklist" /\ last'.arg \in whitelistedIPs) =>
            /\ last'.threw
            /\ last'.error = "Cannot blacklist whitelisted IP"
            /\ blacklistedIPs' = blacklistedIPs
            /\ whitelistedIPs' = whitelistedIPs]_vars

\* the address passes addToBlacklist's format check
WellFormed(ip) == Truthy(ip) /\ (ipv4Regex(ip) \/ ipv6Regex(ip))

\* C6: a first addToBlacklist of a well-formed address that is neither
\* whitelisted nor blacklisted returns true and adds exactly that address;
\* a second call with the same address, right after, returns false and
\* leaves the set as the first call left it.
C6_AddIsIdempotent ==
    [][/\ (/\ last'.op = "addToBlacklist"
           /\ WellFormed(last'.arg)
           /\ last'.arg \notin whitelistedIPs
           /\ last'.arg \notin blacklistedIPs)
          => (/\ ~last'.threw
              /\ last'.value = TRUE
              /\ blacklistedIPs' = blacklistedIPs \cup {last'.arg}
              /\ Cardinality(blacklistedIPs') = Cardinality(blacklistedIPs) + 1)
       /\ (/\ last.op = "addToBlacklist" /\ ~last.threw /\ last.value = TRUE
           /\ last'.op = "addToBlacklist" /\ last'.arg = last.arg)
          => (/\ ~last'.threw
              /\ last'.value = FALSE
              /\ blacklistedIPs' = blacklistedIPs)]_vars

\* a second addToBlacklist of an address that a first had added returned false
C6_Witness ==
    /\ last.op = "addToBlacklist"
    /\ ~last.threw
    /\ last.value = FALSE
    /\ last.arg \in blacklistedIPs \ SeedBlacklist

\* C7: the guard's decision on a request is a function of its client key and
\* the two sets alone: next() when the key is whitelisted; otherwise, when
\* the key is blacklisted, status 403 with the message "Access denied", no
\* details and no headers; otherwise next().
C7_GuardDecision ==
    last.op = "request" =>
        LET clientIP == getClientIP(last.req) IN
        /\ last.trace[1] = "ipBlacklist"
        /\ IF clientIP \notin whitelistedIPs /\ clientIP \in blacklistedIPs
           THEN /\ ~last.nexts[1]
                /\ last.status = 403
                /\ last.body = [success |-> FALSE, message |-> "Access denied",
                                statusCode |-> 403, details |-> NoDetails]
                /\ last.headers = NoHeaders
           ELSE last.nexts[1] /\ last.status # 403

\* the guard denied a request, and the blacklist was not the seeded one
C7_Witness ==
    /\ last.op = "request"
    /\ last.status = 403
    /\ blacklistedIPs # SeedBlacklist

\* the operations that add to the blacklist, and those that remove from it
AddOps == {"addToBlacklist", "POST /blacklist"}
RemoveOps == {"removeFromBlacklist", "DELETE /blacklist/:ip"}

\* C17: the administration of the blacklist is visible at once.  A call that
\* adds a returns with a in the blacklist, a call that removes a or clears
\* the blacklist returns with a out of it, nothing else moves an address in
\* or out, and the guard decides each request on the blacklist as the last
\* such call left it: once addToBlacklist(a) succeeded every request of key
\* a is denied until a is removed or the blacklist cleared, and from then on
\* every request of key a is admitted until a is added again.
C17_AdminVisibleAtOnce ==
    /\ [][(last'.op = "addToBlacklist" /\ ~last'.threw) =>
            last'.arg \in blacklistedIPs' /\ last'.arg \notin whitelistedIPs']_vars
    /\ [][(last'.op = "removeFromBlacklist" /\ ~last'.threw) =>
            last'.arg \notin blacklistedIPs']_vars
    /\ [][last'.op = "clearBlacklist" => blacklistedIPs' = {}]_vars
    /\ [][\A a \in blacklistedIPs \cup blacklistedIPs' :
            /\ (a \notin blacklistedIPs /\ a \in blacklistedIPs') =>
                  last'.op \in AddOps /\ last'.arg = a
            /\ (a \in blacklistedIPs /\ a \notin blacklistedIPs') =>
                  \/ last'.op \in RemoveOps /\ last'.arg = a
                  \/ last'.op = "clearBlacklist"]_vars
    /\ [][last'.op = "request" =>
            /\ blacklistedIPs' = blacklistedIPs
            /\ getClientIP(last'.req) \notin whitelistedIPs =>
                  (last'.status = 403 <=> getClientIP(last'.req) \in blacklistedIPs)]_vars

\* a client that was not blacklisted at the start was denied
C17_Witness ==
    /\ last.op = "request"
    /\ getClientIP(last.req) = PublicIp
    /\ last.status = 403

\* C18: a request that the guard denies leaves the rate limiter's store as
\* it was: no record is created, no timestamp appended or dropped, no quota
\* used.  So it is for the request just denied, and so it would be for every
\* request that the guard denies in this state, now or at a later instant
\* (when timestamps of the store have left the window).
C18_DeniedLeavesStore ==
    /\ [][(last'.op = "request" /\ last'.status = 403) =>
            /\ rateStore' = rateStore
            /\ last'.trace = <<"ipBlacklist">>
            /\ last'.headers = NoHeaders]_vars
    /\ [](\A req \in Requests :
            ~ipBlacklist(req, blacklistedIPs, whitelistedIPs).next =>
                \A t \in now..(now + windowMs + 1), random \in BOOLEAN :
                    handle(req, rateStore, blacklistedIPs, whitelistedIPs, t, random).store
                        = rateStore)

\* the guard denied a client that has a record in the store
C18_Witness ==
    /\ last.op = "request"
    /\ last.status = 403
    /\ limiterKey(last.req) \in DOMAIN rateStore
    /\ Len(rateStore[limiterKey(last.req)].requests) > 0

----------------------------------------------------------------------------
(* Claims about the administration of the blacklist, under SpecAdmin *)

\* C13: addToBlacklist(a) with an a that is neither IPv4-shaped nor
\* IPv6-shaped throws and leaves the blacklist as it was: "Invalid IP address
\* format" for a string that is not empty, "Invalid IP address" for the empty
\* string and for undefined; POST /blacklist with such an a answers 400 with
\* the error's message ("IP address is required" when a is empty or absent),
\* and no exception leaves the handler.
C13_MalformedAddFails ==
    [][(last'.op \in {"addToBlacklist", "POST /blacklist"} /\ ~WellFormed(last'.arg)) =>
            /\ blacklistedIPs' = blacklistedIPs
            /\ last'.op = "addToBlacklist" =>
                  /\ last'.threw
                  /\ last'.error = IF Truthy(last'.arg) THEN "Invalid IP address format"
                                   ELSE "Invalid IP address"
            /\ last'.op = "POST /blacklist" =>
                  /\ ~last'.threw
                  /\ last'.status = 400
                  /\ last'.body =
                        [success |-> FALSE,
                         message |-> IF Truthy(last'.arg) THEN "Invalid IP address format"
                                     ELSE "IP address is required",
                         statusCode |-> 400, details |-> NoDetails]]_vars

\* the route answered 400 to a malformed address, the blacklist changed before
C13_Witness ==
    /\ last.op = "POST /blacklist"
    /\ last.arg = Malformed
    /\ last.status = 400
    /\ last.body.message = "Invalid IP address format"
    /\ blacklistedIPs # SeedBlacklist

\* C14: removeFromBlacklist(a) throws the invalid-address-format error for
\* every malformed a (neither IPv4-shaped nor IPv6-shaped) and leaves the
\* blacklist as it was; for a well-formed a it returns true exactly when a
\* was in the blacklist before the call, and a is not in it afterwards.
C14_RemoveValidatesFormat ==
    [][last'.op = "removeFromBlacklist" =>
            IF WellFormed(last'.arg)
            THEN /\ ~last'.threw
                 /\ last'.value <=> last'.arg \in blacklistedIPs
                 /\ last'.arg \notin blacklistedIPs'
            ELSE /\ last'.threw
                 /\ last'.error \in {"Invalid IP address", "Invalid IP address format"}
                 /\ blacklistedIPs' = blacklistedIPs]_vars

\* C19: the blacklist and the whitelist are disjoint in every reachable
\* state, whatever calls of addToBlacklist, removeFromBlacklist and
\* clearBlacklist were made, failed ones included, and the whitelist is the
\* seeded one throughout.
C19_SetsDisjoint ==
    /\ blacklistedIPs \cap whitelistedIPs = {}
    /\ whitelistedIPs = SeedWhitelist

\* an attempt to blacklist a whitelisted address of valid format has failed,
\* after the blacklist had changed
C19_Witness ==
    /\ last.op = "addToBlacklist"
    /\ last.arg = LocalhostV6
    /\ last.threw
    /\ blacklistedIPs # SeedBlacklist

----------------------------------------------------------------------------
(* Claims about the admin routes, under SpecRouter *)

\* the token of an Authorization header: what follows its first space, up to
\* the next one
TokenOf(authorization) ==
    IF authorization = Undefined THEN Undefined
    ELSE LET spaces == {i \in 1..Len(authorization) : authorization[i] = " "} IN
         IF spaces = {} THEN Undefined
         ELSE LET first == CHOOSE i \in spaces : \A j \in spaces : i <= j
                  later == {i \in spaces : i > first} \cup {Len(authorization) + 1}
                  next == CHOOSE i \in later : \A j \in later : i <= j
              IN  SubSeq(authorization, first + 1, next - 1)

\* C28: through the admin routes, no blacklist add, blacklist remove or
\* rate-limit reset and no read of the statistics happens unless the request
\* carried an Authorization header whose token is the admin API key: a
\* request without the header, without a token or with a wrong token is
\* answered 401, 401 and 403 with an error body, and the router leaves the
\* blacklist and the rate store as they were.  The token is what follows the
\* scheme word of the header; the scheme word itself is not compared.
C28_AdminRequiresKey ==
    [][last'.op \in Routes =>
          LET header == last'.authorization
              token == TokenOf(header)
              authorized == Truthy(header) /\ token = ADMIN_API_KEY
              changed == blacklistedIPs' # blacklistedIPs \/ rateStore' # rateStore
              answered == last'.body.success \/ "data" \in DOMAIN last'.body
          IN  /\ (changed \/ answered \/ last'.isAdmin \/ last'.status = 200) => authorized
              /\ ~Truthy(header) => last'.status = 401
              /\ (Truthy(header) /\ ~Truthy(token)) => last'.status = 401
              /\ (Truthy(header) /\ Truthy(token) /\ token # ADMIN_API_KEY)
                    => last'.status = 403
              /\ ~authorized =>
                    /\ blacklistedIPs' = blacklistedIPs
                    /\ rateStore' = rateStore
                    /\ last'.body = errorResponse(last'.body.message, last'.status, NoDetails)
              /\ authorized => last'.isAdmin]_vars

\* a reset of a key that has a record was asked for with a wrong token and
\* refused, and the record is still there
C28_Witness ==
    /\ last.op = "POST /rate-limit/reset/:ip"
    /\ last.status = 403
    /\ Truthy(TokenOf(last.authorization))
    /\ last.arg \in DOMAIN rateStore

----------------------------------------------------------------------------
(* Claims about the client key, under SpecClientIP *)

\* the first element of the sequence that is neither undefined nor empty
FirstPresent(candidates) ==
    candidates[CHOOSE i \in 1..Len(candidates) :
                  /\ Truthy(candidates[i])
                  /\ \A j \in 1..(i - 1) : ~Truthy(candidates[j])]

\* C16: the client key of the guard is the pre-resolved client address
\* (req.ip) if present; else the first comma-separated entry of the
\* forwarded-for header, trimmed; else the real-IP header; else the peer
\* address of the transport; else the sentinel 0.0.0.0.  Present means
\* neither undefined nor empty.
C16_ClientKeyPrecedence ==
    output # Pending =>
        LET firstEntry ==
                IF input.xForwardedFor = Undefined THEN Undefined
                ELSE Trim(Split(input.xForwardedFor, ",")[1])
        IN  output.clientIP =
                FirstPresent(<<input.ip, firstEntry, input.xRealIp,
                               input.remoteAddress, Unknown>>)

\* without a pre-resolved address, the first forwarded-for entry won over the
\* real-IP header and the peer address
C16_Witness ==
    /\ output # Pending
    /\ ~Truthy(input.ip)
    /\ input.xForwardedFor = ForwardedHeader
    /\ Truthy(input.xRealIp)
    /\ Truthy(input.remoteAddress)
    /\ output.clientIP = BannedB

\* C27: for every request, the key under which the rate limiter files the
\* request is the client key under which the guard evaluated it, also when
\* the request has no pre-resolved address and only the proxy headers or the
\* peer address of the transport are there.
C27_SameClientKey ==
    output # Pending => limiterKey(input) = output.clientIP

----------------------------------------------------------------------------
(* Claims about the chain, under SpecLimiter *)

IsPrefix(s, t) == Len(s) <= Len(t) /\ s = SubSeq(t, 1, Len(s))

\* C8: what runs for a request is a prefix of guard, limiter, sanitizer,
\* handler, in that order; it ends at the first component that does not call
\* next(), so a denial by the guard (403) or by the limiter (429) is followed
\* by nothing, and the handler runs only after all three called next().
C8_ChainOrder ==
    last.op = "request" =>
        /\ IsPrefix(last.trace, <<"ipBlacklist", "rateLimiter", "sanitizer", "handler">>)
        /\ last.trace # <<>>
        /\ \A i \in 1..Len(last.nexts) : last.nexts[i] <=> i < Len(last.trace)
        /\ last.status = 403 <=> last.trace = <<"ipBlacklist">>
        /\ last.status = 429 <=> last.trace = <<"ipBlacklist", "rateLimiter">>
        /\ last.status = 200 <=> last.trace[Len(last.trace)] = "handler"
        /\ last.status \in {200, 403, 429}

\* the limiter denied a request that the guard had let through
C8_Witness ==
    /\ last.op = "request"
    /\ last.trace = <<"ipBlacklist", "rateLimiter">>
    /\ last.nexts = <<TRUE, FALSE>>

----------------------------------------------------------------------------
(* Claims about resetRateLimit, under SpecLimiter *)

\* C9, as claimed: resetRateLimit(k) returns false when k has no record, and
\* true once a request of k has been admitted (since the last reset of k),
\* whatever requests of other keys and sweeps came in between.
C9_ResetTrueOnceAdmitted ==
    [][last'.op = "resetRateLimit" =>
            /\ last'.arg \notin DOMAIN rateStore => ~last'.value
            /\ (last'.arg \in LimiterKeys /\ admittedOnce[last'.arg]) => last'.value]_vars

\* C9, amended: resetRateLimit(k) returns whether k has a record, and
\* removes it.  An admission of k gives k a record, which stays at least
\* while an admission of k lies inside the trailing window, and goes only by
\* a reset of k or by a sweep that finds all its timestamps older than the
\* window.  A rateLimiter call for a key without a record (such as the next
\* one after a reset) is admitted on an empty history.
C9_ResetReportsRecord ==
    /\ [](\A k \in LimiterKeys : recent[k] # <<>> => k \in DOMAIN rateStore)
    /\ [][last'.op = "resetRateLimit" =>
            /\ last'.value <=> last'.arg \in DOMAIN rateStore
            /\ last'.arg \notin DOMAIN rateStore']_vars
    /\ [][\A k \in LimiterKeys :
            /\ (admittedOnce'[k] /\ ~admittedOnce[k]) => k \in DOMAIN rateStore'
            /\ (k \in DOMAIN rateStore /\ k \notin DOMAIN rateStore') =>
                \/ last'.op = "resetRateLimit" /\ last'.arg = k
                \/ /\ last'.op = "request" /\ last'.random
                   /\ \A i \in 1..Len(rateStore[k].requests) :
                        rateStore[k].requests[i] < now - windowMs]_vars
    /\ [][(/\ last'.op = "request"
           /\ Position(last'.trace, "rateLimiter") # {}
           /\ limiterKey(last'.req) \notin DOMAIN rateStore)
          => LET k == limiterKey(last'.req) IN
             /\ last'.nexts[2]
             /\ rateStore'[k] = [requests |-> <<now>>, count |-> 1,
                                 resetTime |-> now + windowMs]
             /\ last'.headers.remaining = maxRequests - 1]_vars

\* a reset found the record of a key that had been admitted, and removed it
C9_Witness ==
    /\ last.op = "resetRateLimit"
    /\ last.value = TRUE
    /\ last.arg \notin DOMAIN rateStore
    /\ DOMAIN rateStore # {}

----------------------------------------------------------------------------
(* Claims about the sanitizer, under SpecSanitize *)

\* a key that deepSanitize is to drop
Dangerous(key) ==
    startsWith(key, "$") \/ includes(key, ".") \/ sanitizeString(key) # key

\* no mapping of the value, at any depth, has a dangerous key
RECURSIVE NoDangerousKey(_)
NoDangerousKey(value) ==
    IF value.t = "object"
    THEN \A i \in 1..Len(value.entries) :
            /\ ~Dangerous(value.entries[i].key)
            /\ NoDangerousKey(value.entries[i].value)
    ELSE IF value.t = "array"
    THEN \A i \in 1..Len(value.items) : NoDangerousKey(value.items[i])
    ELSE TRUE

\* the own properties of a mapping whose keys are not dangerous
KeptEntries(value) ==
    LET Kept(entry) == ~Dangerous(entry.key) IN SelectSeq(value.entries, Kept)

\* out has, at every depth, exactly the entries of in whose keys are not
\* dangerous, each under its original key
RECURSIVE KeepsEntries(_, _)
KeepsEntries(in, out) ==
    IF in.t = "object"
    THEN /\ out.t = "object"
         /\ Len(out.entries) = Len(KeptEntries(in))
         /\ \A i \in 1..Len(out.entries) :
               /\ out.entries[i].key = KeptEntries(in)[i].key
               /\ KeepsEntries(KeptEntries(in)[i].value, out.entries[i].value)
    ELSE IF in.t = "array"
    THEN /\ out.t = "array"
         /\ Len(out.items) = Len(in.items)
         /\ \A i \in 1..Len(in.items) : KeepsEntries(in.items[i], out.items[i])
    ELSE TRUE

\* C10: for every structured value, the output of deepSanitize has at no
\* nesting depth a mapping key that begins with $, contains a dot or differs
\* from its sanitized form; every such entry of the input is dropped with its
\* whole subtree, and every other entry is kept under its original key.
C10_DangerousKeysDropped ==
    output # Pending =>
        /\ NoDangerousKey(output)
        /\ KeepsEntries(input, output)

\* the characters the claim calls markup-special
MarkupSpecial == {"&", "<", ">", "\"", "'", "/"}

\* the value has no key that starts with $ or contains a dot, and no
\* markup-special character in any key or string, at any depth
RECURSIVE FreeOfMarkup(_)
FreeOfMarkup(value) ==
    IF value.t = "object"
    THEN \A i \in 1..Len(value.entries) :
            LET key == value.entries[i].key IN
            /\ ~startsWith(key, "$")
            /\ ~includes(key, ".")
            /\ \A j \in 1..Len(key) : key[j] \notin MarkupSpecial
            /\ FreeOfMarkup(value.entries[i].value)
    ELSE IF value.t = "array"
    THEN \A i \in 1..Len(value.items) : FreeOfMarkup(value.items[i])
    ELSE IF value.t = "string"
    THEN \A j \in 1..Len(value.chars) : value.chars[j] \notin MarkupSpecial
    ELSE TRUE

\* C11: round trip: for every structured value with no key that starts with
\* $, no key that contains a dot and no markup-special character in any key
\* or string, deepSanitize returns a value deeply equal to its input.
C11_RoundTrip ==
    (output # Pending /\ FreeOfMarkup(input)) => output = input

----------------------------------------------------------------------------
(* Claims about deepSanitize on values with identity, under SpecHeap *)

\* the cells that can be reached from a value of the heap
RECURSIVE Reachable(_, _)
Reachable(heap, v) ==
    IF v.t # "ref" THEN {}
    ELSE LET cell == heap[v.a] IN
         {v.a} \cup
            (IF cell.t = "array"
             THEN UNION {Reachable(heap, cell.items[i]) : i \in 1..Len(cell.items)}
             ELSE Reachable(heap, cell.proto) \cup
                  UNION {Reachable(heap, cell.entries[i].value) :
                            i \in 1..Len(cell.entries)})

\* C24: deepSanitize is pure.  It leaves every cell that existed before the
\* call as it was, so the argument and every mapping and sequence nested in it
\* are unchanged; no cell that can be reached from the value returned existed
\* before the call, so input and output share no mutable substructure; an
\* array is returned as an array of the same length whose i-th item is the
\* i-th item of the argument sanitized; numbers, booleans and null are
\* returned as they are.
C24_Pure ==
    (output # Pending /\ input # UndefinedValue) =>
        LET before == input.heap
            after == output.heap
            isArray == input.value.t = "ref" /\ before[input.value.a].t = "array"
        IN
        /\ Len(after) >= Len(before)
        /\ \A a \in 1..Len(before) : after[a] = before[a]
        /\ valueOf(after, input.value) = valueOf(before, input.value)
        /\ Reachable(after, output.value) \cap (1..Len(before)) = {}
        /\ Reachable(after, output.value) \cap Reachable(after, input.value) = {}
        /\ isArray =>
              /\ output.value.t = "ref"
              /\ after[output.value.a].t = "array"
              /\ Len(after[output.value.a].items) = Len(before[input.value.a].items)
              /\ \A i \in 1..Len(before[input.value.a].items) :
                    valueOf(after, after[output.value.a].items[i])
                        = deepSanitize(valueOf(before, before[input.value.a].items[i]))
        /\ input.value.t \in {"number", "boolean", "null"} => output.value = input.value

\* an array of an array and a string was sanitized into cells of its own
C24_Witness ==
    /\ output # Pending
    /\ input # UndefinedValue
    /\ valueOf(input.heap, input.value) = Arr(<<Arr(<<Bool(TRUE)>>), Str(ScriptText)>>)
    /\ valueOf(output.heap, output.value) = Arr(<<Arr(<<Bool(TRUE)>>), Str(<<>>)>>)
    /\ Len(output.heap) = 2 * Len(input.heap)

----------------------------------------------------------------------------
(* Claims about sanitizeString, under SpecString *)

RECURSIVE Flatten(_)
Flatten(seqs) == IF seqs = <<>> THEN <<>> ELSE Head(seqs) \o Flatten(Tail(seqs))

Entities == {AmpEntity, LtEntity, GtEntity, QuotEntity, AposEntity, SlashEntity}

\* the entity e stands in s from position i on
EntityAt(s, i, e) == i + Len(e) - 1 <= Len(s) /\ SubSeq(s, i, i + Len(e) - 1) = e

\* a character encoded once: its entity, or the character itself
EncodedOnce(c) ==
    CASE c = "&" -> AmpEntity
      [] c = "<" -> LtEntity
      [] c = ">" -> GtEntity
      [] c = "\"" -> QuotEntity
      [] c = "'" -> AposEntity
      [] c = "/" -> SlashEntity
      [] OTHER -> <<c>>

\* C23: for every string, the output of sanitizeString holds no literal <,
\* >, ", ' or /, every & in it is the first character of exactly one of the
\* six entities, and no entity written by one encoding step is encoded again
\* by a later one: the output is what is left after the three removals with
\* each of its characters encoded once.
C23_EncodedOnce ==
    (output # Pending /\ input.t = "string") =>
        LET out == output.chars
            removed == removeSchemes(removeHandlers(removeScripts(input.chars, 1), 1), 1)
        IN  /\ output.t = "string"
            /\ \A i \in 1..Len(out) : out[i] \notin {"<", ">", "\"", "'", "/"}
            /\ \A i \in 1..Len(out) :
                  out[i] = "&" => Cardinality({e \in Entities : EntityAt(out, i, e)}) = 1
            /\ out = Flatten([i \in 1..Len(removed) |-> EncodedOnce(removed[i])])

\* a string with an ampersand and markup characters was encoded
C23_Witness ==
    /\ input = Str(<<"<", "&", "/">>)
    /\ output = Str(LtEntity \o AmpEntity \o SlashEntity)

----------------------------------------------------------------------------
(* Claims about the field validator, under SpecValidator *)

\* the violations the claim lists for one field
ViolationsOf(rules, value) ==
    LET absent == value = Undefined \/ value = EmptyString
        blank == ~absent /\ \A i \in 1..Len(value) : value[i] \in WhiteSpace
        checks ==
            <<[fails |-> rules.type # NoType /\ ~validators(rules.type, value),
               message |-> rules.field \o " has invalid format"],
              [fails |-> rules.minLength > 0 /\ Len(value) < rules.minLength,
               message |-> rules.field \o " must be at least "
                              \o ToString(rules.minLength) \o " characters"],
              [fails |-> rules.maxLength > 0 /\ Len(value) > rules.maxLength,
               message |-> rules.field \o " must be no more than "
                              \o ToString(rules.maxLength) \o " characters"]>>
        Failing(check) == check.fails
    IN  IF rules.required /\ (absent \/ blank) THEN <<rules.field \o " is required">>
        ELSE IF absent THEN <<>>
        ELSE [i \in 1..Len(SelectSeq(checks, Failing)) |->
                 SelectSeq(checks, Failing)[i].message]

\* C12: the validator's list of violations is, for each field of the rules in
\* declaration order, the single required message when the field is required
\* and its value is absent or blank, and otherwise the failing checks among
\* format, minLength and maxLength in that order, made only when the value is
\* present; the violations of all fields are collected, and next() is called
\* (the route handler runs) exactly when the list is empty, the response
\* being 400 otherwise.
C12_ViolationList ==
    output # Pending =>
        LET validationRules == input.validationRules
            perField == [i \in 1..Len(validationRules) |->
                            ViolationsOf(validationRules[i],
                                         fieldValue(input.body, validationRules[i].field))]
        IN  /\ output.errors = Flatten(perField)
            /\ output.next <=> output.errors = <<>>
            /\ ~output.next => output.status = 400 /\ ~output.success

\* two failing checks of one field, then the required message of the next
C12_Witness ==
    /\ output # Pending
    /\ ~output.next
    /\ Len(output.errors) = 3
    /\ output.errors[1] = "name has invalid format"
    /\ output.errors[2] = "name must be at least 2 characters"
    /\ output.errors[3] = "email is required"

====
